---- MODULE Spec2Model ----
(***************************************************************************)
(* A model of code2md's concurrent file-gathering pipeline                 *)
(* (internal/gatherer/gatherer.go, internal/gatherer/gitignore_parser.go,  *)
(* internal/config/config.go).                                             *)
(*                                                                         *)
(* Go strings are TLA+ strings; a byte is a one-character string and the   *)
(* byte order of the characters that occur is given by AsciiOrder.         *)
(***************************************************************************)
EXTENDS Integers, Sequences, FiniteSets, TLC

(***************************************************************************)
(* Bounds                                                                  *)
(***************************************************************************)
\* runtime.NumCPU(): the size of the worker pool.
NumCPU == 2

\* The longest content isBinary is called on, every byte sequence taken.
MaxLen == 3

\* The longest content isBinary is called on, by its counts of bytes.
MaxCount == 10

Workers == 1..NumCPU

(***************************************************************************)
(* Strings                                                                 *)
(***************************************************************************)
\* The characters in use, in ascending byte order.
AsciiOrder == " !#*,-./0123456789?ABCDEFGHIJKLMNOPQRSTUVWXYZ[]_abcdefghijklmnopqrstuvwxyz{}"

Ch(s, i) == SubSeq(s, i, i)

Drop(s, n) == SubSeq(s, n + 1, Len(s))

Take(s, n) == SubSeq(s, 1, n)

\* The byte value of a one-character string, up to an order-preserving map.
Ord(c) == CHOOSE i \in 1..Len(AsciiOrder) : Ch(AsciiOrder, i) = c

\* strings.HasPrefix
HasPrefix(s, p) == Len(s) >= Len(p) /\ Take(s, Len(p)) = p

\* strings.HasSuffix
HasSuffix(s, p) == Len(s) >= Len(p) /\ Drop(s, Len(s) - Len(p)) = p

\* strings.Contains
Contains(s, p) == \E i \in 0..(Len(s) - Len(p)) : SubSeq(s, i + 1, i + Len(p)) = p

\* strings.TrimSuffix
TrimSuffix(s, p) == IF HasSuffix(s, p) THEN Take(s, Len(s) - Len(p)) ELSE s

\* strings.TrimPrefix
TrimPrefix(s, p) == IF HasPrefix(s, p) THEN Drop(s, Len(p)) ELSE s

\* strings.TrimSpace, for the one white-space character of the alphabet.
RECURSIVE TrimSpace(_)
TrimSpace(s) ==
    IF s = "" THEN s
    ELSE IF Ch(s, 1) = " " THEN TrimSpace(Drop(s, 1))
    ELSE IF Ch(s, Len(s)) = " " THEN TrimSpace(Take(s, Len(s) - 1))
    ELSE s

\* Go's < on strings: byte-wise lexicographic order.
RECURSIVE StrLess(_, _)
StrLess(a, b) ==
    IF b = "" THEN FALSE
    ELSE IF a = "" THEN TRUE
    ELSE IF Ch(a, 1) = Ch(b, 1) THEN StrLess(Drop(a, 1), Drop(b, 1))
    ELSE Ord(Ch(a, 1)) < Ord(Ch(b, 1))

\* The index of the last "/" of s, 0 when there is none.
LastSlash(s) ==
    LET idx == {i \in 1..Len(s) : Ch(s, i) = "/"}
    IN  IF idx = {} THEN 0 ELSE CHOOSE i \in idx : \A j \in idx : j <= i

\* filepath.Base for a cleaned, non-empty path without trailing separator.
Base(path) == Drop(path, LastSlash(path))

\* filepath.Dir for a cleaned absolute path.
Dir(path) == IF LastSlash(path) <= 1 THEN "/" ELSE Take(path, LastSlash(path) - 1)

\* filepath.Ext: the suffix starting at the last dot of the last element.
Ext(path) ==
    LET b == Base(path)
        idx == {i \in 1..Len(b) : Ch(b, i) = "."}
    IN  IF idx = {} THEN ""
        ELSE Drop(b, (CHOOSE i \in idx : \A j \in idx : j <= i) - 1)

\* filepath.Join(base, name) for cleaned arguments.
Join(base, name) == base \o "/" \o name

\* filepath.Rel(base, target) for cleaned absolute paths where target is
\* base or lies beneath it; ok = FALSE stands for a non-nil error.
Rel(base, target) ==
    IF target = base THEN [ok |-> TRUE, path |-> "."]
    ELSE IF HasPrefix(target, base \o "/")
         THEN [ok |-> TRUE, path |-> Drop(target, Len(base) + 1)]
         ELSE [ok |-> FALSE, path |-> ""]

\* filepath.ToSlash: the separator already is "/".
ToSlash(s) == s

(***************************************************************************)
(* github.com/gobwas/glob, compiled with separator '/'                     *)
(***************************************************************************)
\* The index of the "}" that closes the "{" at position 1 of p, 0 if none.
CloseBrace(p) ==
    LET idx == {i \in 2..Len(p) : Ch(p, i) = "}"}
    IN  IF idx = {} THEN 0 ELSE CHOOSE i \in idx : \A j \in idx : i <= j

\* The alternatives of a brace body, split at the commas.
RECURSIVE SplitComma(_)
SplitComma(s) ==
    LET idx == {i \in 1..Len(s) : Ch(s, i) = ","}
    IN  IF idx = {} THEN {s}
        ELSE LET i == CHOOSE k \in idx : \A j \in idx : k <= j
             IN  {Take(s, i - 1)} \cup SplitComma(Drop(s, i))

\* glob.Compile(p, '/') succeeds: every "{" and "[" is closed.
RECURSIVE GlobCompiles(_)
GlobCompiles(p) ==
    IF p = "" THEN TRUE
    ELSE IF Ch(p, 1) = "{"
         THEN CloseBrace(p) # 0 /\ GlobCompiles(Drop(p, CloseBrace(p)))
    ELSE IF Ch(p, 1) = "["
         THEN Contains(Drop(p, 1), "]")
              /\ GlobCompiles(Drop(p, CHOOSE i \in 2..Len(p) : Ch(p, i) = "]"
                                        /\ \A j \in 2..(i - 1) : Ch(p, j) # "]"))
    ELSE IF Ch(p, 1) \in {"}", "]"} THEN FALSE
    ELSE GlobCompiles(Drop(p, 1))

\* Glob.Match: "*" is any run of non-separators, "**" any run of bytes,
\* "?" one non-separator, "{a,b}" either alternative, anything else itself.
RECURSIVE GlobMatch(_, _)
GlobMatch(p, s) ==
    IF p = "" THEN s = ""
    ELSE IF Ch(p, 1) = "{"
         THEN \E alt \in SplitComma(SubSeq(p, 2, CloseBrace(p) - 1)) :
                  GlobMatch(alt \o Drop(p, CloseBrace(p)), s)
    ELSE IF HasPrefix(p, "**")
         THEN \E k \in 0..Len(s) : GlobMatch(Drop(p, 2), Drop(s, k))
    ELSE IF Ch(p, 1) = "*"
         THEN \E k \in 0..Len(s) :
                  /\ ~Contains(Take(s, k), "/")
                  /\ GlobMatch(Drop(p, 1), Drop(s, k))
    ELSE IF Ch(p, 1) = "?"
         THEN s # "" /\ Ch(s, 1) # "/" /\ GlobMatch(Drop(p, 1), Drop(s, 1))
    ELSE s # "" /\ Ch(s, 1) = Ch(p, 1) /\ GlobMatch(Drop(p, 1), Drop(s, 1))

(***************************************************************************)
(* internal/gatherer/gitignore_parser.go                                   *)
(***************************************************************************)
\* translateGitignoreToGlobs without the pattern for the entry itself.
translateGitignoreToGlobs_descendantsOnly(line) ==
    LET l1 == IF HasSuffix(line, "/") THEN TrimSuffix(line, "/") ELSE line
        l2 == IF ~Contains(l1, "/") THEN "{,**/}" \o l1
              ELSE IF HasPrefix(l1, "/") THEN TrimPrefix(l1, "/")
              ELSE l1
    IN  <<l2 \o "/**">>

\* translateGitignoreToGlobs with a leading "/" treated as no anchor.
translateGitignoreToGlobs_unanchored(line) ==
    LET l1 == IF HasSuffix(line, "/") THEN TrimSuffix(line, "/") ELSE line
        l2 == IF HasPrefix(l1, "/") THEN TrimPrefix(l1, "/") ELSE l1
        l3 == IF ~Contains(l2, "/") THEN "{,**/}" \o l2 ELSE l2
    IN  <<l3, l3 \o "/**">>

\* translateGitignoreToGlobs that keeps the trailing "/" of the line.
translateGitignoreToGlobs_slashKept(line) ==
    LET l2 == IF ~Contains(line, "/") THEN "{,**/}" \o line
              ELSE IF HasPrefix(line, "/") THEN TrimPrefix(line, "/")
              ELSE line
    IN  <<l2, l2 \o "/**">>

\* translateGitignoreToGlobs: one ignore line to its two glob patterns.
translateGitignoreToGlobs(line) ==
    LET l1 == IF HasSuffix(line, "/") THEN TrimSuffix(line, "/") ELSE line
        l2 == IF ~Contains(l1, "/") THEN "{,**/}" \o l1
              ELSE IF HasPrefix(l1, "/") THEN TrimPrefix(l1, "/")
              ELSE l1
    IN  <<l2, l2 \o "/**">>

\* SelectSeq with a one-argument operator written out, kept a sequence.
RECURSIVE CompiledOf(_)
CompiledOf(ps) ==
    IF ps = <<>> THEN <<>>
    ELSE (IF GlobCompiles(Head(ps)) THEN <<Head(ps)>> ELSE <<>>) \o CompiledOf(Tail(ps))

\* The scanner loop with negation lines translated like patterns.
RECURSIVE ScanLines_negationKept(_)
ScanLines_negationKept(lines) ==
    IF lines = <<>> THEN <<>>
    ELSE LET line == TrimSpace(Head(lines))
         IN  (IF line = "" \/ HasPrefix(line, "#")
              THEN <<>>
              ELSE CompiledOf(translateGitignoreToGlobs(line)))
             \o ScanLines_negationKept(Tail(lines))

\* The scanner loop of LoadGitignore over the lines read so far.
RECURSIVE ScanLines(_)
ScanLines(lines) ==
    IF lines = <<>> THEN <<>>
    ELSE LET line == TrimSpace(Head(lines))
         IN  (IF line = "" \/ HasPrefix(line, "#") \/ HasPrefix(line, "!")
              THEN <<>>
              ELSE CompiledOf(translateGitignoreToGlobs(line)))
             \o ScanLines(Tail(lines))


\* os.IsNotExist
IsNotExist(err) == err = "ENOENT"

\* LoadGitignore returning nil for every failed open.
LoadGitignore_swallowOpen(st, lines) ==
    IF st \in {"absent", "openError"} THEN [patterns |-> <<>>, err |-> "nil"]
    ELSE [patterns |-> ScanLines(lines),
          err |-> IF st = "readError" THEN "EIO" ELSE "nil"]

\* LoadGitignore that fails on a pattern that does not compile.
LoadGitignore_compileFatal(st, lines) ==
    IF st = "absent" THEN [patterns |-> <<>>, err |-> "nil"]
    ELSE IF st = "openError" THEN [patterns |-> <<>>, err |-> "EACCES"]
    ELSE IF \E i \in 1..Len(lines) :
                LET line == TrimSpace(lines[i])
                IN  /\ ~(line = "" \/ HasPrefix(line, "#") \/ HasPrefix(line, "!"))
                    /\ \E j \in 1..2 : ~GlobCompiles(translateGitignoreToGlobs(line)[j])
    THEN [patterns |-> <<>>, err |-> "syntax"]
    ELSE [patterns |-> ScanLines(lines),
          err |-> IF st = "readError" THEN "EIO" ELSE "nil"]

\* GitignoreParser.LoadGitignore on an ignore file in state st ("absent",
\* "ok", "openError": open fails with EACCES, "readError": the scanner
\* fails with EIO after delivering lines): the patterns appended and the
\* error returned.
LoadGitignore(st, lines) ==
    IF st = "absent" THEN [patterns |-> <<>>, err |-> "nil"]
    ELSE IF st = "openError" THEN [patterns |-> <<>>, err |-> "EACCES"]
    ELSE [patterns |-> ScanLines(lines),
          err |-> IF st = "readError" THEN "EIO" ELSE "nil"]

\* ShouldIgnore that asks the patterns about the root as well.
ShouldIgnore_rootMatched(patterns, basePath, filePath) ==
    LET rel == Rel(basePath, filePath)
    IN  IF ~rel.ok THEN FALSE
        ELSE \E i \in 1..Len(patterns) : GlobMatch(patterns[i], ToSlash(rel.path))

\* ShouldIgnore that returns what the first pattern says.
ShouldIgnore_firstPattern(patterns, basePath, filePath) ==
    LET rel == Rel(basePath, filePath)
    IN  IF ~rel.ok \/ rel.path = "." THEN FALSE
        ELSE patterns # <<>> /\ GlobMatch(patterns[1], ToSlash(rel.path))

\* GitignoreParser.ShouldIgnore
ShouldIgnore(patterns, basePath, filePath) ==
    LET rel == Rel(basePath, filePath)
    IN  IF ~rel.ok \/ rel.path = "." THEN FALSE
        ELSE \E i \in 1..Len(patterns) : GlobMatch(patterns[i], ToSlash(rel.path))

(***************************************************************************)
(* internal/config/config.go                                               *)
(***************************************************************************)
DefaultExtensions ==
    <<".go", ".py", ".js", ".ts", ".java", ".c", ".cpp", ".h", ".hpp",
      ".cs", ".php", ".rb", ".rs", ".swift", ".kt", ".scala", ".sh",
      ".sql", ".html", ".css", ".scss", ".less", ".vue", ".jsx", ".tsx",
      ".yaml", ".yml", ".json", ".xml", ".toml", ".ini", ".cfg", ".conf",
      ".md", ".txt", ".rst", ".dockerfile", "Dockerfile", "Makefile">>

DefaultExcludeDirs ==
    <<".git", ".svn", ".hg", "node_modules", "vendor", "target", "build",
      "dist", "out", ".idea", ".vscode", "__pycache__", ".pytest_cache",
      ".tox", "venv", ".env", ".venv", "env", ".DS_Store", "thumbs.db",
      "coverage">>

DefaultExcludeFiles == <<"pnpm-lock.yaml", "bun.lockb", "codebase.md">>

\* The key set of a map[string]bool filled with true from a list.
Range(seq) == {seq[i] : i \in 1..Len(seq)}

(***************************************************************************)
(* internal/gatherer/gatherer.go: the filter policy                        *)
(***************************************************************************)
\* prepareExtensionFilters that adds the caller's list to the defaults.
prepareExtensionFilters_defaultsAdded(c) ==
    [extInclude |-> Range(DefaultExtensions) \cup Range(c.IncludeExt),
     extExclude |-> Range(c.ExcludeExt) \cup Range(DefaultExcludeFiles)]

\* prepareExtensionFilters without the default-excluded file names.
prepareExtensionFilters_noDefaultExcludes(c) ==
    [extInclude |-> IF Len(c.IncludeExt) = 0 THEN Range(DefaultExtensions)
                    ELSE Range(c.IncludeExt),
     extExclude |-> Range(c.ExcludeExt)]

\* prepareExtensionFilters: the include and the exclude map.
prepareExtensionFilters(c) ==
    [extInclude |-> IF Len(c.IncludeExt) = 0 THEN Range(DefaultExtensions)
                    ELSE Range(c.IncludeExt),
     extExclude |-> Range(c.ExcludeExt) \cup Range(DefaultExcludeFiles)]

\* prepareDirFilters with the caller's directories only.
prepareDirFilters_userOnly(c, gitignoreExists) == Range(c.ExcludeDirs)

\* prepareDirFilters that always starts from the comprehensive list.
prepareDirFilters_comprehensive(c, gitignoreExists) ==
    Range(DefaultExcludeDirs) \cup Range(c.ExcludeDirs)

\* prepareDirFilters: the directory names to prune.
prepareDirFilters(c, gitignoreExists) ==
    (IF gitignoreExists THEN {".git", ".svn", ".hg"}
     ELSE Range(DefaultExcludeDirs)) \cup Range(c.ExcludeDirs)

\* shouldSkipHidden
shouldSkipHidden(c, name) == ~c.IncludeHidden /\ HasPrefix(name, ".")

\* shouldIncludeFile without the branch for hidden files.
shouldIncludeFile_hiddenAsPlain(c, path, extInclude, extExclude) ==
    LET fileName == Base(path)
        ext == Ext(path)
    IN  IF fileName \in extExclude THEN FALSE
        ELSE IF ext = "" THEN fileName \in extInclude
        ELSE ext \in extInclude /\ ext \notin extExclude

\* shouldIncludeFile without the test of the file name against the
\* exclude map.
shouldIncludeFile_nameNotExcluded(c, path, extInclude, extExclude) ==
    LET fileName == Base(path)
        ext == Ext(path)
    IN  IF c.IncludeHidden /\ HasPrefix(fileName, ".")
        THEN ~(ext # "" /\ ext \in extExclude)
        ELSE IF ext = "" THEN fileName \in extInclude
        ELSE ext \in extInclude /\ ext \notin extExclude

\* shouldIncludeFile
shouldIncludeFile(c, path, extInclude, extExclude) ==
    LET fileName == Base(path)
        ext == Ext(path)
    IN  IF fileName \in extExclude THEN FALSE
        ELSE IF c.IncludeHidden /\ HasPrefix(fileName, ".")
             THEN IF ext # "" /\ ext \in extExclude THEN FALSE
                  ELSE IF fileName \in extExclude THEN FALSE
                  ELSE TRUE
        ELSE IF ext = "" THEN fileName \in extInclude
        ELSE ext \in extInclude /\ ext \notin extExclude

\* isBinary without the scan for a zero byte.
isBinary_ratioOnly(data) ==
    LET nonPrintable ==
            Cardinality({i \in 1..Len(data) :
                            data[i] < 32 /\ data[i] \notin {9, 10, 13}})
    IN  Len(data) > 0 /\ 10 * nonPrintable > 3 * Len(data)

\* isBinary that takes a ratio of exactly 30% for binary.
isBinary_atLeast(data) ==
    LET nonPrintable ==
            Cardinality({i \in 1..Len(data) :
                            data[i] < 32 /\ data[i] \notin {9, 10, 13}})
    IN  \/ \E i \in 1..Len(data) : data[i] = 0
        \/ Len(data) > 0 /\ 10 * nonPrintable >= 3 * Len(data)

\* isBinary: a zero byte, or more than 30% bytes below 32 other than
\* tab, line feed and carriage return (nonPrintable/len > 0.3).
isBinary(data) ==
    LET nonPrintable ==
            Cardinality({i \in 1..Len(data) :
                            data[i] < 32 /\ data[i] \notin {9, 10, 13}})
    IN  \/ \E i \in 1..Len(data) : data[i] = 0
        \/ Len(data) > 0 /\ 10 * nonPrintable > 3 * Len(data)


(***************************************************************************)
(* The file systems and configurations the scan is run on                  *)
(***************************************************************************)
\* A regular file: root-relative path, stat size, content bytes, and
\* whether os.Stat or os.ReadFile fails on it.
File(rel, size, content) ==
    [rel |-> rel, size |-> size, content |-> content,
     statErr |-> FALSE, readErr |-> FALSE]

Text == <<104, 105, 10>>

\* The fixture of TestFileGatherer_GatherFiles_WithGitignore.
TreeGitignore ==
    [root |-> "/r", gitignore |-> "ok",
     lines |-> <<"*.log", "build/", "temp.txt">>,
     files |-> {File(".gitignore", 3, Text), File("main.go", 3, Text),
                File("README.md", 3, Text), File("debug.log", 3, Text),
                File("build/output.txt", 3, Text), File("temp.txt", 3, Text)},
     unreadableDirs |-> {}]

\* The fixture of TestFileGatherer_GitignoreComplexPatterns.
TreeComplex ==
    [root |-> "/r", gitignore |-> "ok",
     lines |-> <<"", "# logs", "*.log", "# root build", "/build/",
                 "# docs", "docs/", "**/tmp/data.txt">>,
     files |-> {File(".gitignore", 3, Text), File("main.go", 3, Text),
                File("src/build/somefile.txt", 3, Text),
                File("debug.log", 3, Text), File("build/output.txt", 3, Text),
                File("src/docs/guide.md", 3, Text),
                File("app/tmp/data.txt", 3, Text)},
     unreadableDirs |-> {}]

\* The fixture of setupTestFileSystem, without three of its plain text
\* files: no ignore file.
TreeDefault ==
    [root |-> "/r", gitignore |-> "absent", lines |-> <<>>,
     files |-> {File("main.go", 3, Text), File("node_modules/lib.js", 3, Text),
                File(".env", 3, Text), File("src/bigfile.txt", 200, <<>>),
                File("src/binary.bin", 3, <<104, 0, 105>>)},
     unreadableDirs |-> {}]

\* An ignore file that exists but cannot be opened.
TreeUnreadable ==
    [root |-> "/r", gitignore |-> "openError", lines |-> <<"*.go", "build/">>,
     files |-> {File(".gitignore", 3, Text), File("main.go", 3, Text),
                File("build/gen.go", 3, Text), File("docs/a.md", 3, Text)},
     unreadableDirs |-> {}]

\* An ignore file whose read fails after its first line, and a file
\* whose read fails.
TreePartial ==
    [root |-> "/r", gitignore |-> "readError", lines |-> <<"*.md">>,
     files |-> {File(".gitignore", 3, Text), File("vendor/v.go", 3, Text),
                File("docs/a.md", 3, Text),
                [File("r.go", 3, Text) EXCEPT !.readErr = TRUE]},
     unreadableDirs |-> {}]

\* A directory named like a file pattern, a walk order that differs from
\* the byte order of the paths, and entries that fail.
TreeEdge ==
    [root |-> "/r", gitignore |-> "ok",
     lines |-> <<"*.log", "build/", "temp.txt">>,
     files |-> {File(".gitignore", 3, Text), File("a/b.go", 3, Text),
                File("a.go", 3, Text), File("x.log/c.go", 3, Text),
                File("locked/e.go", 3, Text),
                [File("s.go", 3, Text) EXCEPT !.statErr = TRUE]},
     unreadableDirs |-> {"locked"}]

\* n bytes of printable text.
Fill(n) == [i \in 1..n |-> 104]

\* Names the filter policy decides on: a test file, a text file outside
\* a list of Go and Python extensions, a hidden file, an extensionless
\* file.
TreeNames ==
    [root |-> "/r", gitignore |-> "absent", lines |-> <<>>,
     files |-> {File("x_test.go", 3, Text), File("notes.md", 3, Text),
                File(".env", 3, Text), File("Makefile", 3, Text)},
     unreadableDirs |-> {}]

\* The files config.DefaultExcludeFiles names, beside a source file.
TreeLocks ==
    [root |-> "/r", gitignore |-> "absent", lines |-> <<>>,
     files |-> {File("pnpm-lock.yaml", 3, Text), File("bun.lockb", 3, Text),
                File("codebase.md", 3, Text), File("main.go", 3, Text)},
     unreadableDirs |-> {}]

\* Source files that differ in content and size: a zero byte among text,
\* a size of exactly MaxFileSize and one byte more; and a hidden
\* directory with a source file.
TreeContent ==
    [root |-> "/r", gitignore |-> "absent", lines |-> <<>>,
     files |-> {File("z.go", 4, <<104, 0, 105, 10>>),
                File("eq.go", 100, Fill(100)), File("big.go", 101, Fill(101)),
                File(".hid/in.go", 3, Text)},
     unreadableDirs |-> {}]

\* A scan root that does not exist.
TreeGone ==
    [root |-> "/gone", gitignore |-> "absent", lines |-> <<>>, files |-> {},
     unreadableDirs |-> {}]

\* A scan root that exists and cannot be read.
TreeNoAccess ==
    [root |-> "/r", gitignore |-> "openError", lines |-> <<>>,
     files |-> {File("main.go", 3, Text)}, unreadableDirs |-> {"."}]

\* A scan root whose own name is hidden.
TreeHiddenRoot ==
    [root |-> "/.h", gitignore |-> "absent", lines |-> <<>>,
     files |-> {File("main.go", 3, Text)}, unreadableDirs |-> {}]

\* A scan root whose own name is one a caller excludes.
TreeExcludedRoot ==
    [root |-> "/docs", gitignore |-> "absent", lines |-> <<>>,
     files |-> {File("main.go", 3, Text)}, unreadableDirs |-> {}]

\* Version-control directories holding source files, without and with an
\* ignore file.
TreeVcs ==
    [root |-> "/r", gitignore |-> "absent", lines |-> <<>>,
     files |-> {File(".git/x.go", 3, Text), File(".svn/y.go", 3, Text),
                File("sub/.hg/z.go", 3, Text), File("main.go", 3, Text)},
     unreadableDirs |-> {}]

TreeVcsIgnore ==
    [root |-> "/r", gitignore |-> "ok", lines |-> <<"*.log">>,
     files |-> {File(".gitignore", 3, Text), File(".git/x.go", 3, Text),
                File("main.go", 3, Text)},
     unreadableDirs |-> {}]

Trees ==
    [gitignore |-> TreeGitignore, complex |-> TreeComplex,
     default |-> TreeDefault, unreadable |-> TreeUnreadable,
     partial |-> TreePartial, edge |-> TreeEdge, names |-> TreeNames,
     locks |-> TreeLocks, content |-> TreeContent, gone |-> TreeGone,
     noaccess |-> TreeNoAccess, hiddenroot |-> TreeHiddenRoot,
     exroot |-> TreeExcludedRoot, vcs |-> TreeVcs, vcsignore |-> TreeVcsIgnore]

\* The trees for whose root os.Lstat fails.
MissingRoots == {"gone"}

\* config.Config, the fields the gatherer reads.
Configs ==
    [IncludeExt : {<<>>}, ExcludeExt : {<<>>},
     ExcludeDirs : {<<>>, <<"a", "docs">>},
     MaxFileSize : {100}, IncludeHidden : BOOLEAN]

\* The configurations of the flags -i and -e.
NameConfigs ==
    [IncludeExt : {<<>>, <<".go", ".py">>}, ExcludeExt : {<<>>, <<"_test.go">>},
     ExcludeDirs : {<<>>}, MaxFileSize : {100}, IncludeHidden : BOOLEAN]

LockConfigs ==
    [IncludeExt : {<<>>, <<".yaml", ".lockb", ".md">>}, ExcludeExt : {<<>>},
     ExcludeDirs : {<<>>}, MaxFileSize : {100}, IncludeHidden : BOOLEAN]

\* The configurations a tree is scanned under.
ConfigsOf(t) ==
    CASE t = "names" -> NameConfigs
      [] t = "locks" -> LockConfigs
      [] t \in {"content", "gone", "noaccess"} -> {c \in Configs : c.ExcludeDirs = <<>>}
      [] OTHER -> Configs

\* The root-relative paths of the directories of a tree.
DirsOf(t) ==
    UNION {{Take(f.rel, i - 1) : i \in {j \in 1..Len(f.rel) : Ch(f.rel, j) = "/"}} :
              f \in t.files}

\* Lstat: is the absolute path a directory of the tree.
IsDir(t, path) ==
    path = t.root \/ (Rel(t.root, path).ok /\ Rel(t.root, path).path \in DirsOf(t))

\* The file of the tree at an absolute path.
FileAt(t, path) == CHOOSE f \in t.files : Join(t.root, f.rel) = path

\* The sequence of the strings of a finite set in ascending byte order.
RECURSIVE SortedSeq(_)
SortedSeq(S) ==
    IF S = {} THEN <<>>
    ELSE LET m == CHOOSE x \in S : \A y \in S \ {x} : StrLess(x, y)
         IN  <<m>> \o SortedSeq(S \ {m})

\* os.ReadDir: the absolute paths of the entries of a directory, sorted
\* by file name.
ReadDir(t, path) ==
    LET all == {Join(t.root, f.rel) : f \in t.files}
                   \cup {Join(t.root, d) : d \in DirsOf(t)}
    IN  SortedSeq({q \in all : Dir(q) = path})


(***************************************************************************)
(* internal/gatherer/gatherer.go: per-file processing and the final sort   *)
(***************************************************************************)
NoInfo == [Path |-> "", Size |-> 0, Content |-> <<>>]

\* processFile returning FileInfo{}, false after the calls of os it made.
Rejected(calls) == [info |-> NoInfo, shouldAdd |-> FALSE, calls |-> calls]

\* processFile that skips a file of exactly MaxFileSize bytes.
processFile_sizeAtLeast(t, c, path) ==
    LET flt == prepareExtensionFilters(c)
        f == FileAt(t, path)
        relPath == IF Rel(t.root, path).ok THEN Rel(t.root, path).path ELSE path
    IN  IF ~shouldIncludeFile(c, path, flt.extInclude, flt.extExclude)
        THEN Rejected(<<>>)
        ELSE IF f.statErr THEN Rejected(<<"Stat">>)
        ELSE IF f.size >= c.MaxFileSize THEN Rejected(<<"Stat">>)
        ELSE IF f.readErr THEN Rejected(<<"Stat", "ReadFile">>)
        ELSE IF isBinary(f.content) THEN Rejected(<<"Stat", "ReadFile">>)
        ELSE [info |-> [Path |-> relPath, Size |-> f.size, Content |-> f.content],
              shouldAdd |-> TRUE, calls |-> <<"Stat", "ReadFile">>]

\* processFile that reads the file before it compares the size.
processFile_readFirst(t, c, path) ==
    LET flt == prepareExtensionFilters(c)
        f == FileAt(t, path)
        relPath == IF Rel(t.root, path).ok THEN Rel(t.root, path).path ELSE path
    IN  IF ~shouldIncludeFile(c, path, flt.extInclude, flt.extExclude)
        THEN Rejected(<<>>)
        ELSE IF f.statErr THEN Rejected(<<"Stat">>)
        ELSE IF f.readErr THEN Rejected(<<"Stat", "ReadFile">>)
        ELSE IF f.size > c.MaxFileSize THEN Rejected(<<"Stat", "ReadFile">>)
        ELSE IF isBinary(f.content) THEN Rejected(<<"Stat", "ReadFile">>)
        ELSE [info |-> [Path |-> relPath, Size |-> f.size, Content |-> f.content],
              shouldAdd |-> TRUE, calls |-> <<"Stat", "ReadFile">>]

\* processFile: the record for a candidate path, whether to add it, and
\* the calls of os it made, in their order.
processFile(t, c, path) ==
    LET flt == prepareExtensionFilters(c)
        f == FileAt(t, path)
        relPath == IF Rel(t.root, path).ok THEN Rel(t.root, path).path ELSE path
    IN  IF ~shouldIncludeFile(c, path, flt.extInclude, flt.extExclude)
        THEN Rejected(<<>>)
        ELSE IF f.statErr THEN Rejected(<<"Stat">>)
        ELSE IF f.size > c.MaxFileSize THEN Rejected(<<"Stat">>)
        ELSE IF f.readErr THEN Rejected(<<"Stat", "ReadFile">>)
        ELSE IF isBinary(f.content) THEN Rejected(<<"Stat", "ReadFile">>)
        ELSE [info |-> [Path |-> relPath, Size |-> f.size, Content |-> f.content],
              shouldAdd |-> TRUE, calls |-> <<"Stat", "ReadFile">>]

\* InsertByPath that ignores the order.
InsertByPath_front(x, sorted) == <<x>> \o sorted

\* Insertion of one record into a list sorted by files[i].Path < files[j].Path.
RECURSIVE InsertByPath(_, _)
InsertByPath(x, sorted) ==
    IF sorted = <<>> THEN <<x>>
    ELSE IF StrLess(x.Path, Head(sorted).Path) THEN <<x>> \o sorted
    ELSE <<Head(sorted)>> \o InsertByPath(x, Tail(sorted))

\* GatherFiles without the sort.
SortSlice_none(fs) == fs

\* sort.Slice(files, func(i, j) bool { return files[i].Path < files[j].Path })
RECURSIVE SortSlice(_)
SortSlice(fs) ==
    IF fs = <<>> THEN <<>>
    ELSE InsertByPath(Head(fs), SortSlice(Tail(fs)))

(***************************************************************************)
(* State                                                                   *)
(***************************************************************************)
VARIABLES
    tree,            \* the name of the file system under the scan root
    cfg,             \* fg.config
    fg,              \* the FileGatherer built by NewFileGatherer
    mainPc,          \* the caller: "new", "constructed", "collect", "returned"
    parentErr,       \* Err() of the caller's context, "nil" until cancelled
    ctxErr,          \* Err() of the errgroup's derived context
    gerr,            \* g.err, the first error returned by a group member
    todo,            \* the entries WalkDir has still to call the callback on
    pPc,             \* the producer: "idle", "walk", "send", "done"
    pCur,            \* the path the producer is sending on paths
    pathsClosed,     \* close(paths) has run
    wPc,             \* each worker: "idle", "recv", "select", "proc", "send", "done"
    wPath,           \* the path each worker has received
    wInfo,           \* the record each worker is sending on results
    resultsClosed,   \* close(results) has run
    files,           \* the collector's list
    ret,             \* what GatherFiles returned
    sent,            \* history: the paths handed to workers, in order
    cancelledEarly,  \* history: Cancel came while the producer had a check to run
    call,            \* a direct call of a function: its arguments and result
    cli,             \* a run of the command: its inputs, cfg and effects
    mu               \* the mutex-collecting GatherFiles: the holder of mu, the
                     \* list each worker read in its append, and history:
                     \* a worker took mu while another was waiting for it

vars == <<tree, cfg, fg, mainPc, parentErr, ctxErr, gerr, todo, pPc, pCur,
          pathsClosed, wPc, wPath, wInfo, resultsClosed, files, ret, sent,
          cancelledEarly, call, cli, mu>>

T == Trees[tree]

NoRet == [files |-> <<>>, isNil |-> TRUE, err |-> "nil"]

\* No function of the filter policy is called directly.
NoCall == [fn |-> "none", path |-> "", data |-> <<>>, result |-> FALSE]

\* The command is not run.
NoCli == [pc |-> "none"]

\* mu is unlocked and no worker is in an append.
Unlocked == [holder |-> 0, seen |-> [w \in Workers |-> <<>>], waited |-> FALSE]

\* Nothing of a scan has run yet.
Idle ==
    /\ fg = [patterns |-> <<>>, gitignoreExists |-> FALSE, warned |-> FALSE]
    /\ mainPc = "new"
    /\ parentErr = "nil"
    /\ ctxErr = "nil"
    /\ gerr = "nil"
    /\ todo = <<[path |-> Trees[tree].root, err |-> tree \in MissingRoots]>>
    /\ pPc = "idle"
    /\ pCur = ""
    /\ pathsClosed = FALSE
    /\ wPc = [w \in Workers |-> "idle"]
    /\ wPath = [w \in Workers |-> ""]
    /\ wInfo = [w \in Workers |-> NoInfo]
    /\ resultsClosed = FALSE
    /\ files = <<>>
    /\ ret = NoRet
    /\ sent = <<>>
    /\ cancelledEarly = FALSE
    /\ mu = Unlocked

Init ==
    /\ tree \in DOMAIN Trees
    /\ cfg \in ConfigsOf(tree)
    /\ call = NoCall
    /\ cli = NoCli
    /\ Idle

(***************************************************************************)
(* Actions                                                                 *)
(***************************************************************************)
\* NewFileGatherer: load the ignore file, warn on a load error, go on.
NewFileGatherer ==
    /\ mainPc = "new"
    /\ LET ld == LoadGitignore(T.gitignore, T.lines)
           gitignoreExists == ~IsNotExist(ld.err)
       IN  fg' = [patterns |-> ld.patterns,
                  gitignoreExists |-> gitignoreExists,
                  warned |-> ld.err # "nil" /\ gitignoreExists]
    /\ mainPc' = "constructed"
    /\ UNCHANGED <<cli, mu, call, tree, cfg, parentErr, ctxErr, gerr, todo, pPc, pCur,
                   pathsClosed, wPc, wPath, wInfo, resultsClosed, files, ret,
                   sent, cancelledEarly>>

\* GatherFiles up to the collector's loop: the channels are made and the
\* producer, the workers and the closing goroutine are started.
GatherStart ==
    /\ mainPc = "constructed"
    /\ mainPc' = "collect"
    /\ pPc' = "walk"
    /\ wPc' = [w \in Workers |-> "recv"]
    /\ UNCHANGED <<cli, mu, call, tree, cfg, fg, parentErr, ctxErr, gerr, todo, pCur,
                   pathsClosed, wPath, wInfo, resultsClosed, files, ret, sent,
                   cancelledEarly>>

\* The caller's context is cancelled or its deadline passes; the derived
\* context is cancelled with it.
Cancel(reason) ==
    /\ mainPc # "returned"
    /\ parentErr = "nil"
    /\ parentErr' = reason
    /\ ctxErr' = IF ctxErr = "nil" THEN reason ELSE ctxErr
    /\ cancelledEarly' = (pPc # "done" /\ todo # <<>>)
    /\ UNCHANGED <<cli, mu, call, tree, cfg, fg, mainPc, gerr, todo, pPc, pCur, pathsClosed,
                   wPc, wPath, wInfo, resultsClosed, files, ret, sent>>

\* errgroup: a member returned err; the first non-nil error is kept. Its
\* cancel() finds the derived context cancelled already, for a member
\* returns an error only after it saw ctx.Done().
GroupErr(err) == IF gerr = "nil" THEN err ELSE gerr

\* The callback with the ignore rules tested on files only.
WalkVerdict_ignoreFilesOnly(item) ==
    LET name == Base(item.path)
        isDir == IsDir(T, item.path)
    IN  IF item.err THEN "skip"
        ELSE IF isDir
             THEN IF name \in prepareDirFilters(cfg, fg.gitignoreExists)
                     \/ shouldSkipHidden(cfg, name)
                  THEN "skip" ELSE "descend"
        ELSE IF ShouldIgnore(fg.patterns, T.root, item.path) THEN "skip"
        ELSE IF shouldSkipHidden(cfg, name) THEN "skip"
        ELSE "emit"

\* The callback with the hidden check on files only.
WalkVerdict_hiddenDirsWalked(item) ==
    LET name == Base(item.path)
        isDir == IsDir(T, item.path)
    IN  IF item.err THEN "skip"
        ELSE IF ShouldIgnore(fg.patterns, T.root, item.path) THEN "skip"
        ELSE IF isDir
             THEN IF name \in prepareDirFilters(cfg, fg.gitignoreExists)
                  THEN "skip" ELSE "descend"
        ELSE IF shouldSkipHidden(cfg, name) THEN "skip"
        ELSE "emit"

\* The callback with the directory checks not applied to the scan root.
WalkVerdict_rootExempt(item) ==
    LET name == Base(item.path)
        isDir == IsDir(T, item.path)
    IN  IF item.err THEN "skip"
        ELSE IF ShouldIgnore(fg.patterns, T.root, item.path) THEN "skip"
        ELSE IF isDir
             THEN IF item.path # T.root
                     /\ (name \in prepareDirFilters(cfg, fg.gitignoreExists)
                         \/ shouldSkipHidden(cfg, name))
                  THEN "skip" ELSE "descend"
        ELSE IF shouldSkipHidden(cfg, name) THEN "skip"
        ELSE "emit"

\* What WalkDir does with the callback's verdict on the entry at the head
\* of todo: "skip" (SkipDir, or a file), "descend", "emit".
WalkVerdict(item) ==
    LET name == Base(item.path)
        isDir == IsDir(T, item.path)
    IN  IF item.err THEN "skip"
        ELSE IF ShouldIgnore(fg.patterns, T.root, item.path) THEN "skip"
        ELSE IF isDir
             THEN IF name \in prepareDirFilters(cfg, fg.gitignoreExists)
                     \/ shouldSkipHidden(cfg, name)
                  THEN "skip" ELSE "descend"
        ELSE IF shouldSkipHidden(cfg, name) THEN "skip"
        ELSE "emit"

\* The entries WalkDir visits after the callback accepted a directory: its
\* children, or the directory again with the ReadDir error.
Descend(path) ==
    IF Rel(T.root, path).path \in T.unreadableDirs
    THEN <<[path |-> path, err |-> TRUE]>>
    ELSE [i \in 1..Len(ReadDir(T, path)) |->
             [path |-> ReadDir(T, path)[i], err |-> FALSE]]

\* producer on a buffered paths channel: the send does not wait for a
\* worker and the walk goes on.
ProducerStep_buffered ==
    /\ pPc \in {"walk", "send"}
    /\ todo # <<>>
    /\ IF ctxErr # "nil"
       THEN /\ pPc' = "done"
            /\ pathsClosed' = TRUE
            /\ gerr' = GroupErr(ctxErr)
            /\ UNCHANGED <<todo, pCur>>
       ELSE LET item == Head(todo)
                v == WalkVerdict(item)
            IN  /\ todo' = IF v = "descend" THEN Descend(item.path) \o Tail(todo)
                           ELSE Tail(todo)
                /\ pPc' = IF v = "emit" THEN "send" ELSE pPc
                /\ pCur' = IF v = "emit" THEN item.path ELSE pCur
                /\ UNCHANGED <<pathsClosed, gerr>>
    /\ UNCHANGED <<cli, mu, call, tree, cfg, fg, mainPc, parentErr, ctxErr, wPc, wPath,
                   wInfo, resultsClosed, files, ret, sent, cancelledEarly>>

\* producer whose callback returns the access error of an entry.
ProducerStep_accessErrorFails ==
    /\ pPc = "walk"
    /\ todo # <<>>
    /\ IF ctxErr # "nil" \/ Head(todo).err
       THEN /\ pPc' = "done"
            /\ pathsClosed' = TRUE
            /\ gerr' = GroupErr(IF ctxErr # "nil" THEN ctxErr ELSE "EACCES")
            /\ UNCHANGED <<todo, pCur>>
       ELSE LET item == Head(todo)
                v == WalkVerdict(item)
            IN  /\ todo' = IF v = "descend" THEN Descend(item.path) \o Tail(todo)
                           ELSE Tail(todo)
                /\ pPc' = IF v = "emit" THEN "send" ELSE "walk"
                /\ pCur' = IF v = "emit" THEN item.path ELSE ""
                /\ UNCHANGED <<pathsClosed, gerr>>
    /\ UNCHANGED <<cli, mu, call, tree, cfg, fg, mainPc, parentErr, ctxErr, wPc, wPath,
                   wInfo, resultsClosed, files, ret, sent, cancelledEarly>>

\* producer whose callback has no select on ctx.Done().
ProducerStep_noCtxCheck ==
    /\ pPc = "walk"
    /\ todo # <<>>
    /\ LET item == Head(todo)
           v == WalkVerdict(item)
       IN  /\ todo' = IF v = "descend" THEN Descend(item.path) \o Tail(todo)
                      ELSE Tail(todo)
           /\ pPc' = IF v = "emit" THEN "send" ELSE "walk"
           /\ pCur' = IF v = "emit" THEN item.path ELSE ""
    /\ UNCHANGED <<cli, mu, call, tree, cfg, fg, mainPc, parentErr, ctxErr, gerr,
                   pathsClosed, wPc, wPath, wInfo, resultsClosed, files, ret,
                   sent, cancelledEarly>>

\* producer: one call of the WalkDir callback, up to its return or to the
\* send on paths; on cancellation the walk ends, paths is closed and the
\* context's error goes to the group.
ProducerStep ==
    /\ pPc = "walk"
    /\ todo # <<>>
    /\ IF ctxErr # "nil"
       THEN /\ pPc' = "done"
            /\ pathsClosed' = TRUE
            /\ gerr' = GroupErr(ctxErr)
            /\ UNCHANGED <<todo, pCur>>
       ELSE LET item == Head(todo)
                v == WalkVerdict(item)
            IN  /\ todo' = IF v = "descend" THEN Descend(item.path) \o Tail(todo)
                           ELSE Tail(todo)
                /\ pPc' = IF v = "emit" THEN "send" ELSE "walk"
                /\ pCur' = IF v = "emit" THEN item.path ELSE ""
                /\ UNCHANGED <<pathsClosed, gerr>>
    /\ UNCHANGED <<cli, mu, call, tree, cfg, fg, mainPc, parentErr, ctxErr, wPc, wPath, wInfo,
                   resultsClosed, files, ret, sent, cancelledEarly>>

\* producer: WalkDir has visited everything; paths is closed, nil returned.
ProducerFinish ==
    /\ pPc = "walk"
    /\ todo = <<>>
    /\ pPc' = "done"
    /\ pathsClosed' = TRUE
    /\ UNCHANGED <<cli, mu, call, tree, cfg, fg, mainPc, parentErr, ctxErr, gerr, todo, pCur,
                   wPc, wPath, wInfo, resultsClosed, files, ret, sent,
                   cancelledEarly>>

\* A send on paths that leaves the path with the producer.
Handoff_pathKept(w) ==
    /\ pPc = "send"
    /\ wPc[w] = "recv"
    /\ wPc' = [wPc EXCEPT ![w] = "select"]
    /\ wPath' = [wPath EXCEPT ![w] = pCur]
    /\ sent' = Append(sent, pCur)
    /\ UNCHANGED <<cli, mu, call, tree, cfg, fg, mainPc, parentErr, ctxErr, gerr, todo,
                   pPc, pCur, pathsClosed, wInfo, resultsClosed, files, ret,
                   cancelledEarly>>

\* paths <- path meets a worker's receive (the channel is unbuffered).
Handoff(w) ==
    /\ pPc = "send"
    /\ wPc[w] = "recv"
    /\ wPc' = [wPc EXCEPT ![w] = "select"]
    /\ wPath' = [wPath EXCEPT ![w] = pCur]
    /\ sent' = Append(sent, pCur)
    /\ pPc' = "walk"
    /\ pCur' = ""
    /\ UNCHANGED <<cli, mu, call, tree, cfg, fg, mainPc, parentErr, ctxErr, gerr, todo,
                   pathsClosed, wInfo, resultsClosed, files, ret, cancelledEarly>>

\* worker: range paths ends on the closed channel; nil is returned.
WorkerExit(w) ==
    /\ wPc[w] = "recv"
    /\ pathsClosed
    /\ wPc' = [wPc EXCEPT ![w] = "done"]
    /\ UNCHANGED <<cli, mu, call, tree, cfg, fg, mainPc, parentErr, ctxErr, gerr, todo, pPc,
                   pCur, pathsClosed, wPath, wInfo, resultsClosed, files, ret,
                   sent, cancelledEarly>>

\* worker that leaves on cancellation with a nil error.
WorkerSelect_returnsNil(w) ==
    /\ wPc[w] = "select"
    /\ IF ctxErr # "nil"
       THEN /\ wPc' = [wPc EXCEPT ![w] = "done"]
            /\ wPath' = [wPath EXCEPT ![w] = ""]
       ELSE /\ wPc' = [wPc EXCEPT ![w] = "proc"]
            /\ UNCHANGED wPath
    /\ UNCHANGED <<cli, mu, call, tree, cfg, fg, mainPc, parentErr, ctxErr, gerr, todo, pPc,
                   pCur, pathsClosed, wInfo, resultsClosed, files, ret, sent,
                   cancelledEarly>>

\* worker: the select on ctx.Done() after a path was received.
WorkerSelect(w) ==
    /\ wPc[w] = "select"
    /\ IF ctxErr # "nil"
       THEN /\ wPc' = [wPc EXCEPT ![w] = "done"]
            /\ wPath' = [wPath EXCEPT ![w] = ""]
            /\ gerr' = GroupErr(ctxErr)
       ELSE /\ wPc' = [wPc EXCEPT ![w] = "proc"]
            /\ UNCHANGED <<wPath, gerr>>
    /\ UNCHANGED <<cli, mu, call, tree, cfg, fg, mainPc, parentErr, ctxErr, todo, pPc, pCur,
                   pathsClosed, wInfo, resultsClosed, files, ret, sent,
                   cancelledEarly>>

\* worker: processFile on the received path.
WorkerProcess(w) ==
    /\ wPc[w] = "proc"
    /\ LET r == processFile(T, cfg, wPath[w])
       IN  /\ wPc' = [wPc EXCEPT ![w] = IF r.shouldAdd THEN "send" ELSE "recv"]
           /\ wInfo' = [wInfo EXCEPT ![w] = r.info]
    /\ wPath' = [wPath EXCEPT ![w] = ""]
    /\ UNCHANGED <<cli, mu, call, tree, cfg, fg, mainPc, parentErr, ctxErr, gerr, todo, pPc,
                   pCur, pathsClosed, resultsClosed, files, ret, sent,
                   cancelledEarly>>

\* A send on results after which the worker keeps the record.
Emit_recordKept(w) ==
    /\ wPc[w] = "send"
    /\ mainPc = "collect"
    /\ ~resultsClosed
    /\ files' = Append(files, wInfo[w])
    /\ wPc' = [wPc EXCEPT ![w] = "recv"]
    /\ UNCHANGED <<cli, mu, call, tree, cfg, fg, mainPc, parentErr, ctxErr, gerr, todo,
                   pPc, pCur, pathsClosed, wPath, wInfo, resultsClosed, ret,
                   sent, cancelledEarly>>

\* results <- fileInfo meets the collector's receive and append.
Emit(w) ==
    /\ wPc[w] = "send"
    /\ mainPc = "collect"
    /\ ~resultsClosed
    /\ files' = Append(files, wInfo[w])
    /\ wPc' = [wPc EXCEPT ![w] = "recv"]
    /\ wInfo' = [wInfo EXCEPT ![w] = NoInfo]
    /\ UNCHANGED <<cli, mu, call, tree, cfg, fg, mainPc, parentErr, ctxErr, gerr, todo, pPc,
                   pCur, pathsClosed, wPath, resultsClosed, ret, sent,
                   cancelledEarly>>

\* A closing goroutine that closes results once the producer has returned.
CloseResults_noWait ==
    /\ mainPc = "collect"
    /\ ~resultsClosed
    /\ pPc = "done"
    /\ resultsClosed' = TRUE
    /\ ctxErr' = IF ctxErr = "nil" THEN "Canceled" ELSE ctxErr
    /\ UNCHANGED <<cli, mu, call, tree, cfg, fg, mainPc, parentErr, gerr, todo, pPc, pCur,
                   pathsClosed, wPc, wPath, wInfo, files, ret, sent,
                   cancelledEarly>>

\* The closing goroutine: g.Wait() returned, close(results).
CloseResults ==
    /\ mainPc = "collect"
    /\ ~resultsClosed
    /\ pPc = "done"
    /\ \A w \in Workers : wPc[w] = "done"
    /\ resultsClosed' = TRUE
    /\ ctxErr' = IF ctxErr = "nil" THEN "Canceled" ELSE ctxErr
    /\ UNCHANGED <<cli, mu, call, tree, cfg, fg, mainPc, parentErr, gerr, todo, pPc, pCur,
                   pathsClosed, wPc, wPath, wInfo, files, ret, sent,
                   cancelledEarly>>

\* GatherFiles that returns ctx.Err() of the group's context after Wait.
GatherReturn_ctxErr ==
    /\ mainPc = "collect"
    /\ resultsClosed
    /\ ret' = IF ctxErr # "nil"
              THEN [files |-> <<>>, isNil |-> TRUE, err |-> ctxErr]
              ELSE [files |-> SortSlice(files), isNil |-> files = <<>>,
                    err |-> "nil"]
    /\ mainPc' = "returned"
    /\ UNCHANGED <<cli, mu, call, tree, cfg, fg, parentErr, ctxErr, gerr, todo, pPc, pCur,
                   pathsClosed, wPc, wPath, wInfo, resultsClosed, files, sent,
                   cancelledEarly>>

\* GatherFiles after the drain loop: g.Wait(), then nil and the error, or
\* the sorted list.
GatherReturn ==
    /\ mainPc = "collect"
    /\ resultsClosed
    /\ ret' = IF gerr # "nil"
              THEN [files |-> <<>>, isNil |-> TRUE, err |-> gerr]
              ELSE [files |-> SortSlice(files), isNil |-> files = <<>>,
                    err |-> "nil"]
    /\ mainPc' = "returned"
    /\ UNCHANGED <<cli, mu, call, tree, cfg, fg, parentErr, ctxErr, gerr, todo, pPc, pCur,
                   pathsClosed, wPc, wPath, wInfo, resultsClosed, files, sent,
                   cancelledEarly>>

Next ==
    \/ NewFileGatherer
    \/ GatherStart
    \/ \E reason \in {"Canceled", "DeadlineExceeded"} : Cancel(reason)
    \/ ProducerStep
    \/ ProducerFinish
    \/ \E w \in Workers : Handoff(w)
    \/ \E w \in Workers : WorkerExit(w)
    \/ \E w \in Workers : WorkerSelect(w)
    \/ \E w \in Workers : WorkerProcess(w)
    \/ \E w \in Workers : Emit(w)
    \/ CloseResults
    \/ GatherReturn

Spec == Init /\ [][Next]_vars

(***************************************************************************)
(* The functions of the filter policy, called one at a time                 *)
(***************************************************************************)
\* The configurations of the direct calls.
PolicyConfigs ==
    [IncludeExt : {<<>>, <<".go", ".py">>, <<".env", "Makefile">>},
     ExcludeExt : {<<>>, <<"_test.go">>, <<".json", ".env">>, <<".x.md">>},
     ExcludeDirs : {<<>>}, MaxFileSize : {100}, IncludeHidden : BOOLEAN]

\* The paths shouldIncludeFile is called on.
PolicyPaths ==
    {"/r/.env", "/r/.eslintrc.json", "/r/.x.md", "/r/.x_test.go",
     "/r/sub/.notes.md", "/r/.hid/in.go", "/r/main.go", "/r/x_test.go",
     "/r/notes.md", "/r/Makefile", "/r/LICENSE", "/r/pnpm-lock.yaml"}

\* The byte values content is made of: zero, control bytes, tab, line
\* feed, carriage return, the first printable byte and a letter.
Bytes == {0, 8, 9, 10, 13, 31, 32, 104}

\* Every content of at most MaxLen bytes.
Contents == UNION {[1..k -> Bytes] : k \in 0..MaxLen}

\* k control bytes, w line feeds and p letters.
Mix(k, w, p) ==
    [i \in 1..(k + w + p) |-> IF i <= k THEN 31 ELSE IF i <= k + w THEN 10 ELSE 104]

\* Every ratio of control bytes in a content of at most MaxCount bytes.
Mixes ==
    {Mix(m[1], m[2], m[3]) :
        m \in {x \in (0..MaxCount) \X (0..MaxCount) \X (0..MaxCount) :
                  x[1] + x[2] + x[3] <= MaxCount}}

PolicyInit ==
    /\ tree = "names"
    /\ cli = NoCli
    /\ Idle
    /\ \/ /\ cfg \in PolicyConfigs
          /\ call \in {[NoCall EXCEPT !.path = p] : p \in PolicyPaths}
       \/ /\ cfg \in {c \in Configs : c.ExcludeDirs = <<>> /\ ~c.IncludeHidden}
          /\ call \in {[NoCall EXCEPT !.data = d] : d \in Contents \cup Mixes}

\* fg.shouldIncludeFile(path, extInclude, extExclude) on the maps of
\* prepareExtensionFilters.
CallShouldIncludeFile ==
    /\ call.fn = "none"
    /\ call.path # ""
    /\ LET flt == prepareExtensionFilters(cfg)
       IN  call' = [call EXCEPT
                      !.fn = "shouldIncludeFile",
                      !.result = shouldIncludeFile(cfg, call.path,
                                                   flt.extInclude, flt.extExclude)]
    /\ UNCHANGED <<cli, mu, tree, cfg, fg, mainPc, parentErr, ctxErr, gerr, todo, pPc,
                   pCur, pathsClosed, wPc, wPath, wInfo, resultsClosed, files,
                   ret, sent, cancelledEarly>>

\* isBinary(data)
CallIsBinary ==
    /\ call.fn = "none"
    /\ call.path = ""
    /\ call' = [call EXCEPT !.fn = "isBinary", !.result = isBinary(call.data)]
    /\ UNCHANGED <<cli, mu, tree, cfg, fg, mainPc, parentErr, ctxErr, gerr, todo, pPc,
                   pCur, pathsClosed, wPc, wPath, wInfo, resultsClosed, files,
                   ret, sent, cancelledEarly>>

PolicyNext ==
    \/ CallShouldIncludeFile
    \/ CallIsBinary

PolicySpec == PolicyInit /\ [][PolicyNext]_vars

(***************************************************************************)
(* The command: Execute, createRootCommand and runCode2MD                  *)
(***************************************************************************)
defaultMaxFileSize == 1048576

\* The settings of Config the command is followed on.
Settings == {"OutputFile", "MaxFileSize", "DryRun"}

\* What each source gives a setting when it gives one: the .env file, the
\* CODE2MD_ variables of the environment, the flags of the command line.
DotenvValue == [OutputFile |-> "file.md", MaxFileSize |-> 256, DryRun |-> TRUE]

EnvironValue == [OutputFile |-> "env.md", MaxFileSize |-> 512, DryRun |-> TRUE]

FlagValue == [OutputFile |-> "flag.md", MaxFileSize |-> 2048, DryRun |-> TRUE]

\* var c Config
ZeroValue == [OutputFile |-> "", MaxFileSize |-> 0, DryRun |-> FALSE]

\* The default each flag is registered with.
FlagDefault ==
    [OutputFile |-> "codebase.md", MaxFileSize |-> defaultMaxFileSize,
     DryRun |-> FALSE]

\* The Config the test of the dry run calls runCode2MD with, and the same
\* with DryRun off.
DirectConfigs ==
    {[OutputFile |-> "test_output.md", MaxFileSize |-> defaultMaxFileSize,
      DryRun |-> d] : d \in BOOLEAN}

\* The names an output file can have.
OutputNames == {"codebase.md", "file.md", "env.md", "flag.md", "test_output.md"}

\* What g.GatherFiles(ctx) gives runCode2MD: the three records of the test
\* tree sorted by path, an empty list, or the error of a cancelled context.
GatherResults ==
    {[files |-> <<[Path |-> "README.md", Size |-> 3, Content |-> Text],
                  [Path |-> "internal/helper.go", Size |-> 3, Content |-> Text],
                  [Path |-> "main.go", Size |-> 3, Content |-> Text]>>,
      err |-> "nil"],
     [files |-> <<>>, err |-> "nil"],
     [files |-> <<>>, err |-> "Canceled"]}

\* fmt.Sprintf("%d", n) for n >= 0
RECURSIVE Itoa(_)
Itoa(n) ==
    LET digit == <<"0", "1", "2", "3", "4", "5", "6", "7", "8", "9">>
    IN  IF n < 10 THEN digit[n + 1]
        ELSE Itoa(n \div 10) \o digit[(n % 10) + 1]

\* sort.Strings
RECURSIVE sortStrings(_)
sortStrings(paths) ==
    IF paths = <<>> THEN <<>>
    ELSE LET rest == sortStrings(Tail(paths))
             k == Cardinality({i \in 1..Len(rest) : ~StrLess(Head(paths), rest[i])})
         IN  SubSeq(rest, 1, k) \o <<Head(paths)>> \o SubSeq(rest, k + 1, Len(rest))

\* godotenv.Load: a variable of the .env file is set in the environment
\* unless the environment has it already.
godotenvLoad(dotenv, environ) ==
    [k \in Settings |-> IF k \in environ THEN "environ"
                        ELSE IF k \in dotenv THEN "dotenv"
                        ELSE "unset"]

\* envconfig.Process("CODE2MD", &c): a field whose variable is set gets
\* its value, the others keep the zero value.
envconfigProcess(env) ==
    [k \in Settings |-> IF env[k] = "environ" THEN EnvironValue[k]
                        ELSE IF env[k] = "dotenv" THEN DotenvValue[k]
                        ELSE ZeroValue[k]]

\* The command before Execute, with what the sources give and whether the
\* output files exist; entry tells a run of Execute from a call of
\* runCode2MD on a Config of the caller's.
CliStart(dotenv, environ, flags, existing) ==
    [entry |-> "Execute", pc |-> "start", dotenv |-> dotenv, environ |-> environ, flags |-> flags,
     cfg |-> ZeroValue,
     defValue |-> [output |-> "", maxSize |-> ""],
     fs0 |-> [n \in OutputNames |-> IF existing THEN "old" ELSE "absent"],
     fs |-> [n \in OutputNames |-> IF existing THEN "old" ELSE "absent"],
     stdout |-> <<>>, generatorCalled |-> FALSE, err |-> "nil"]

CliInit ==
    /\ tree = "default"
    /\ cfg \in {c \in ConfigsOf("default") : ~c.IncludeHidden}
    /\ call = NoCall
    /\ Idle
    /\ \/ cli \in {CliStart(d, e, f, x) :
                      d \in SUBSET Settings, e \in SUBSET Settings,
                      f \in SUBSET Settings, x \in BOOLEAN}
       \/ cli \in {[CliStart({}, {}, {}, x) EXCEPT !.entry = "runCode2MD", !.pc = "parsed",
                                                    !.cfg = c] :
                      x \in BOOLEAN, c \in DirectConfigs}

\* Execute: config.Load()
ConfigLoad ==
    /\ cli.pc = "start"
    /\ cli' = [cli EXCEPT
                 !.pc = "loaded",
                 !.cfg = envconfigProcess(godotenvLoad(cli.dotenv, cli.environ))]
    /\ UNCHANGED <<mu, call, tree, cfg, fg, mainPc, parentErr, ctxErr, gerr, todo,
                   pPc, pCur, pathsClosed, wPc, wPath, wInfo, resultsClosed,
                   files, ret, sent, cancelledEarly>>

\* createRootCommand: each flag is registered on the field of cfg with its
\* default, which the registration stores in the field; DefValue is then
\* set from the field.
CreateRootCommand ==
    /\ cli.pc = "loaded"
    /\ LET c1 == [cli.cfg EXCEPT !.OutputFile = FlagDefault.OutputFile]
           d1 == IF c1.OutputFile # "" THEN c1.OutputFile
                 ELSE FlagDefault.OutputFile
           c2 == [c1 EXCEPT !.MaxFileSize = FlagDefault.MaxFileSize]
           d2 == IF c2.MaxFileSize # 0 THEN Itoa(c2.MaxFileSize)
                 ELSE Itoa(FlagDefault.MaxFileSize)
           c3 == [c2 EXCEPT !.DryRun = FlagDefault.DryRun]
       IN  cli' = [cli EXCEPT
                     !.pc = "built",
                     !.cfg = c3,
                     !.defValue = [output |-> d1, maxSize |-> d2]]
    /\ UNCHANGED <<mu, call, tree, cfg, fg, mainPc, parentErr, ctxErr, gerr, todo,
                   pPc, pCur, pathsClosed, wPc, wPath, wInfo, resultsClosed,
                   files, ret, sent, cancelledEarly>>

\* rootCmd.Execute(): the flags given on the command line are parsed into
\* the fields they are registered on.
ParseFlags ==
    /\ cli.pc = "built"
    /\ cli' = [cli EXCEPT
                 !.pc = "parsed",
                 !.cfg = [k \in Settings |-> IF k \in cli.flags THEN FlagValue[k]
                                             ELSE cli.cfg[k]]]
    /\ UNCHANGED <<mu, call, tree, cfg, fg, mainPc, parentErr, ctxErr, gerr, todo,
                   pPc, pCur, pathsClosed, wPc, wPath, wInfo, resultsClosed,
                   files, ret, sent, cancelledEarly>>

\* gen.GenerateMarkdown: os.Create(config.OutputFile), then the writes.
GenerateMarkdown(fs, name, createOk) ==
    IF createOk THEN [fs EXCEPT ![name] = "generated"] ELSE fs

\* runCode2MD that goes on to the generator in a dry run.
RunCode2MD_dryRunIgnored(gathered, createOk) ==
    /\ cli.pc = "parsed"
    /\ cli' = IF gathered.err # "nil"
              THEN [cli EXCEPT !.pc = "done", !.err = "error gathering files"]
              ELSE [cli EXCEPT
                      !.pc = "done",
                      !.generatorCalled = TRUE,
                      !.fs = GenerateMarkdown(cli.fs, cli.cfg.OutputFile, createOk),
                      !.err = IF createOk THEN "nil"
                              ELSE "error generating markdown",
                      !.stdout = IF createOk THEN <<"Successfully generated">>
                                 ELSE <<>>]
    /\ UNCHANGED <<mu, call, tree, cfg, fg, mainPc, parentErr, ctxErr, gerr, todo,
                   pPc, pCur, pathsClosed, wPc, wPath, wInfo, resultsClosed,
                   files, ret, sent, cancelledEarly>>

\* runCode2MD on what GatherFiles gave: the error wrapped, or the header
\* and the sorted paths of a dry run, or the generator and the success
\* line.
RunCode2MD(gathered, createOk) ==
    /\ cli.pc = "parsed"
    /\ cli' = IF gathered.err # "nil"
              THEN [cli EXCEPT !.pc = "done", !.err = "error gathering files"]
              ELSE IF cli.cfg.DryRun
              THEN [cli EXCEPT
                      !.pc = "done",
                      !.stdout =
                          <<"Dry Run: The following files would be included in the output:">>
                          \o sortStrings([i \in 1..Len(gathered.files) |->
                                             gathered.files[i].Path])]
              ELSE [cli EXCEPT
                      !.pc = "done",
                      !.generatorCalled = TRUE,
                      !.fs = GenerateMarkdown(cli.fs, cli.cfg.OutputFile, createOk),
                      !.err = IF createOk THEN "nil"
                              ELSE "error generating markdown",
                      !.stdout = IF createOk THEN <<"Successfully generated">>
                                 ELSE <<>>]
    /\ UNCHANGED <<mu, call, tree, cfg, fg, mainPc, parentErr, ctxErr, gerr, todo,
                   pPc, pCur, pathsClosed, wPc, wPath, wInfo, resultsClosed,
                   files, ret, sent, cancelledEarly>>

CliNext ==
    \/ ConfigLoad
    \/ CreateRootCommand
    \/ ParseFlags
    \/ \E gathered \in GatherResults, createOk \in BOOLEAN :
           RunCode2MD(gathered, createOk)

CliSpec == CliInit /\ [][CliNext]_vars

(***************************************************************************)
(* The GatherFiles that collects under a mutex                             *)
(***************************************************************************)
\* prepareExtensionFilters of this variant: no default excluded names.
Mutex_prepareExtensionFilters(c) ==
    [extInclude |-> IF Len(c.IncludeExt) = 0 THEN Range(DefaultExtensions)
                    ELSE Range(c.IncludeExt),
     extExclude |-> Range(c.ExcludeExt)]

\* prepareDirFilters of this variant: the default list and the caller's.
Mutex_prepareDirFilters(c) == Range(DefaultExcludeDirs) \cup Range(c.ExcludeDirs)

\* shouldSkip
Mutex_shouldSkip(c, name, isDir, dirExclude) ==
    IF ~c.IncludeHidden /\ HasPrefix(name, ".") THEN TRUE
    ELSE IF isDir /\ name \in dirExclude THEN TRUE
    ELSE FALSE

\* shouldIncludeFile of this variant
Mutex_shouldIncludeFile(c, path, extInclude, extExclude) ==
    LET fileName == Base(path)
        ext == Ext(path)
    IN  IF c.IncludeHidden /\ HasPrefix(fileName, ".")
        THEN IF ext # "" /\ ext \in extExclude THEN FALSE
             ELSE IF fileName \in extExclude THEN FALSE
             ELSE TRUE
        ELSE IF ext = "" THEN fileName \in extInclude
        ELSE ext \in extInclude /\ ext \notin extExclude

\* processFile of this variant
Mutex_processFile(t, c, path) ==
    LET flt == Mutex_prepareExtensionFilters(c)
        f == FileAt(t, path)
        relPath == IF Rel(t.root, path).ok THEN Rel(t.root, path).path ELSE path
    IN  IF ~Mutex_shouldIncludeFile(c, path, flt.extInclude, flt.extExclude)
        THEN [info |-> NoInfo, ok |-> FALSE]
        ELSE IF f.statErr THEN [info |-> NoInfo, ok |-> FALSE]
        ELSE IF f.size > c.MaxFileSize THEN [info |-> NoInfo, ok |-> FALSE]
        ELSE IF f.readErr THEN [info |-> NoInfo, ok |-> FALSE]
        ELSE IF isBinary(f.content) THEN [info |-> NoInfo, ok |-> FALSE]
        ELSE [info |-> [Path |-> relPath, Size |-> f.size, Content |-> f.content],
              ok |-> TRUE]

\* The trees this variant is run on.
MutexTrees == {"default", "unreadable", "partial", "locks"}

MutexInit ==
    /\ tree \in MutexTrees
    /\ cfg \in ConfigsOf(tree)
    /\ call = NoCall
    /\ cli = NoCli
    /\ Idle

\* NewFileGatherer of this variant: no ignore file is loaded.
Mutex_NewFileGatherer ==
    /\ mainPc = "new"
    /\ mainPc' = "constructed"
    /\ UNCHANGED <<cli, mu, call, tree, cfg, fg, parentErr, ctxErr, gerr, todo, pPc,
                   pCur, pathsClosed, wPc, wPath, wInfo, resultsClosed, files,
                   ret, sent, cancelledEarly>>

\* GatherFiles up to g.Wait(): the producer and the workers are started.
Mutex_GatherStart ==
    /\ mainPc = "constructed"
    /\ mainPc' = "wait"
    /\ pPc' = "walk"
    /\ wPc' = [w \in Workers |-> "recv"]
    /\ UNCHANGED <<cli, mu, call, tree, cfg, fg, parentErr, ctxErr, gerr, todo, pCur,
                   pathsClosed, wPath, wInfo, resultsClosed, files, ret, sent,
                   cancelledEarly>>

\* The callback of walkAndProduce on an entry: "skip", "descend", "emit".
Mutex_WalkVerdict(item) ==
    LET name == Base(item.path)
        isDir == IsDir(T, item.path)
    IN  IF item.err THEN "skip"
        ELSE IF Mutex_shouldSkip(cfg, name, isDir, Mutex_prepareDirFilters(cfg))
             THEN "skip"
        ELSE IF isDir THEN "descend"
        ELSE "emit"

\* walkAndProduce: one call of the callback by WalkDir; a cancelled context
\* ends the walk, the deferred close(paths) runs and the error is returned.
Mutex_walkAndProduce ==
    /\ pPc = "walk"
    /\ todo # <<>>
    /\ IF ctxErr # "nil"
       THEN /\ pPc' = "done"
            /\ pathsClosed' = TRUE
            /\ gerr' = GroupErr(ctxErr)
            /\ UNCHANGED <<todo, pCur>>
       ELSE LET item == Head(todo)
                v == Mutex_WalkVerdict(item)
            IN  /\ todo' = IF v = "descend" THEN Descend(item.path) \o Tail(todo)
                           ELSE Tail(todo)
                /\ pPc' = IF v = "emit" THEN "send" ELSE "walk"
                /\ pCur' = IF v = "emit" THEN item.path ELSE ""
                /\ UNCHANGED <<pathsClosed, gerr>>
    /\ UNCHANGED <<cli, mu, call, tree, cfg, fg, mainPc, parentErr, ctxErr, wPc,
                   wPath, wInfo, resultsClosed, files, ret, sent, cancelledEarly>>

\* worker: processFile on the received path; an accepted file takes the
\* worker to mu.Lock().
Mutex_WorkerProcess(w) ==
    /\ wPc[w] = "proc"
    /\ LET r == Mutex_processFile(T, cfg, wPath[w])
       IN  /\ wPc' = [wPc EXCEPT ![w] = IF r.ok THEN "lock" ELSE "recv"]
           /\ wInfo' = [wInfo EXCEPT ![w] = r.info]
    /\ wPath' = [wPath EXCEPT ![w] = ""]
    /\ UNCHANGED <<cli, mu, call, tree, cfg, fg, mainPc, parentErr, ctxErr, gerr,
                   todo, pPc, pCur, pathsClosed, resultsClosed, files, ret, sent,
                   cancelledEarly>>

\* A Lock that does not wait for the mutex to be free.
Mutex_Lock_noWait(w) ==
    /\ wPc[w] = "lock"
    /\ mu' = [mu EXCEPT !.holder = w,
                        !.waited = @ \/ \E v \in Workers \ {w} : wPc[v] = "lock"]
    /\ wPc' = [wPc EXCEPT ![w] = "append"]
    /\ UNCHANGED <<cli, call, tree, cfg, fg, mainPc, parentErr, ctxErr, gerr, todo,
                   pPc, pCur, pathsClosed, wPath, wInfo, resultsClosed, files,
                   ret, sent, cancelledEarly>>

\* mu.Lock(): returns when no worker holds mu.
Mutex_Lock(w) ==
    /\ wPc[w] = "lock"
    /\ mu.holder = 0
    /\ mu' = [mu EXCEPT !.holder = w,
                        !.waited = @ \/ \E v \in Workers \ {w} : wPc[v] = "lock"]
    /\ wPc' = [wPc EXCEPT ![w] = "append"]
    /\ UNCHANGED <<cli, call, tree, cfg, fg, mainPc, parentErr, ctxErr, gerr, todo,
                   pPc, pCur, pathsClosed, wPath, wInfo, resultsClosed, files,
                   ret, sent, cancelledEarly>>

\* files = append(files, fileInfo), first half: the list is read.
Mutex_AppendRead(w) ==
    /\ wPc[w] = "append"
    /\ mu' = [mu EXCEPT !.seen[w] = files]
    /\ wPc' = [wPc EXCEPT ![w] = "store"]
    /\ UNCHANGED <<cli, call, tree, cfg, fg, mainPc, parentErr, ctxErr, gerr, todo,
                   pPc, pCur, pathsClosed, wPath, wInfo, resultsClosed, files,
                   ret, sent, cancelledEarly>>

\* files = append(files, fileInfo), second half: the longer list is stored.
Mutex_AppendStore(w) ==
    /\ wPc[w] = "store"
    /\ files' = Append(mu.seen[w], wInfo[w])
    /\ mu' = [mu EXCEPT !.seen[w] = <<>>]
    /\ wPc' = [wPc EXCEPT ![w] = "unlock"]
    /\ wInfo' = [wInfo EXCEPT ![w] = NoInfo]
    /\ UNCHANGED <<cli, call, tree, cfg, fg, mainPc, parentErr, ctxErr, gerr, todo,
                   pPc, pCur, pathsClosed, wPath, resultsClosed, ret, sent,
                   cancelledEarly>>

\* mu.Unlock(), and the worker is back at its range over paths.
Mutex_Unlock(w) ==
    /\ wPc[w] = "unlock"
    /\ mu' = [mu EXCEPT !.holder = 0]
    /\ wPc' = [wPc EXCEPT ![w] = "recv"]
    /\ UNCHANGED <<cli, call, tree, cfg, fg, mainPc, parentErr, ctxErr, gerr, todo,
                   pPc, pCur, pathsClosed, wPath, wInfo, resultsClosed, files,
                   ret, sent, cancelledEarly>>

\* g.Wait() returns when the producer and every worker have returned, and
\* cancels the group's context; GatherFiles returns nil and the error, or
\* the sorted list.
Mutex_GatherReturn ==
    /\ mainPc = "wait"
    /\ pPc = "done"
    /\ \A w \in Workers : wPc[w] = "done"
    /\ ctxErr' = IF ctxErr = "nil" THEN "Canceled" ELSE ctxErr
    /\ ret' = IF gerr # "nil"
              THEN [files |-> <<>>, isNil |-> TRUE, err |-> gerr]
              ELSE [files |-> SortSlice(files), isNil |-> files = <<>>,
                    err |-> "nil"]
    /\ mainPc' = "returned"
    /\ UNCHANGED <<cli, mu, call, tree, cfg, fg, parentErr, gerr, todo, pPc, pCur,
                   pathsClosed, wPc, wPath, wInfo, resultsClosed, files, sent,
                   cancelledEarly>>

MutexNext ==
    \/ Mutex_NewFileGatherer
    \/ Mutex_GatherStart
    \/ \E reason \in {"Canceled", "DeadlineExceeded"} : Cancel(reason)
    \/ Mutex_walkAndProduce
    \/ ProducerFinish
    \/ \E w \in Workers :
           \/ Handoff(w)
           \/ WorkerExit(w)
           \/ WorkerSelect(w)
           \/ Mutex_WorkerProcess(w)
           \/ Mutex_Lock(w)
           \/ Mutex_AppendRead(w)
           \/ Mutex_AppendStore(w)
           \/ Mutex_Unlock(w)
    \/ Mutex_GatherReturn

MutexSpec == MutexInit /\ [][MutexNext]_vars

(***************************************************************************)
(* The functions of the ignore file, called one at a time                  *)
(***************************************************************************)
MaxLines == 2

\* The lines an ignore file is made of: patterns with and without a
\* trailing and a leading "/", a nested one, one in white space, a
\* wildcard for every name, a negation, a comment, a blank line and a
\* pattern that does not compile.
GitignoreLines ==
    {"*.log", "build/", "build", "/build/", " docs/a.md ", "*", "!keep.log",
     "# c", "", "[ab"}

\* The ignore files of at most MaxLines lines.
GitignoreFiles == UNION {[1..n -> GitignoreLines] : n \in 0..MaxLines}

\* gp.basePath
BasePath == "/r"

\* The paths ShouldIgnore is asked about: the root and entries beneath it.
IgnorePaths ==
    {"/r", "/r/keep.log", "/r/build", "/r/src/build", "/r/build/x.go",
     "/r/docs/a.md", "/r/main.go", "/r/src/docs/a.md"}

\* A parser made by NewGitignoreParser(BasePath) on an ignore file.
NewGitignoreParser(lines) ==
    [fn |-> "none", lines |-> lines, line |-> "", globs |-> <<>>,
     patterns |-> <<>>, err |-> "nil", path |-> "", result |-> FALSE]

\* The lines LoadGitignore passes to translateGitignoreToGlobs.
PatternLines(lines) ==
    {l \in {TrimSpace(lines[i]) : i \in 1..Len(lines)} :
        ~(l = "" \/ HasPrefix(l, "#") \/ HasPrefix(l, "!"))}

IgnoreInit ==
    /\ tree = "gitignore"
    /\ cfg \in {c \in Configs : c.ExcludeDirs = <<>> /\ ~c.IncludeHidden}
    /\ cli = NoCli
    /\ Idle
    /\ call \in {NewGitignoreParser(ls) : ls \in GitignoreFiles}

\* translateGitignoreToGlobs(line) on a line of the file
CallTranslate(line) ==
    /\ call.fn = "none"
    /\ line \in PatternLines(call.lines)
    /\ call' = [call EXCEPT !.fn = "translateGitignoreToGlobs",
                            !.line = line,
                            !.globs = translateGitignoreToGlobs(line)]
    /\ UNCHANGED <<cli, mu, tree, cfg, fg, mainPc, parentErr, ctxErr, gerr, todo,
                   pPc, pCur, pathsClosed, wPc, wPath, wInfo, resultsClosed,
                   files, ret, sent, cancelledEarly>>

\* gp.LoadGitignore() on a file that opens and reads
CallLoadGitignore ==
    /\ call.fn = "none"
    /\ LET ld == LoadGitignore("ok", call.lines)
       IN  call' = [call EXCEPT !.fn = "LoadGitignore",
                                !.patterns = ld.patterns,
                                !.err = ld.err]
    /\ UNCHANGED <<cli, mu, tree, cfg, fg, mainPc, parentErr, ctxErr, gerr, todo,
                   pPc, pCur, pathsClosed, wPc, wPath, wInfo, resultsClosed,
                   files, ret, sent, cancelledEarly>>

\* gp.ShouldIgnore(filePath) after the load
CallShouldIgnore(filePath) ==
    /\ call.fn = "LoadGitignore"
    /\ call' = [call EXCEPT !.fn = "ShouldIgnore",
                            !.path = filePath,
                            !.result = ShouldIgnore(call.patterns, BasePath, filePath)]
    /\ UNCHANGED <<cli, mu, tree, cfg, fg, mainPc, parentErr, ctxErr, gerr, todo,
                   pPc, pCur, pathsClosed, wPc, wPath, wInfo, resultsClosed,
                   files, ret, sent, cancelledEarly>>

IgnoreNext ==
    \/ \E line \in {TrimSpace(l) : l \in GitignoreLines} : CallTranslate(line)
    \/ CallLoadGitignore
    \/ \E filePath \in IgnorePaths : CallShouldIgnore(filePath)

IgnoreSpec == IgnoreInit /\ [][IgnoreNext]_vars

(***************************************************************************)
(* processFile, called on one file                                         *)
(***************************************************************************)
\* The trees whose files processFile is called on: files that fail stat
\* or read, of every size around MaxFileSize, binary, and of names the
\* filter policy rejects.
ProcessTrees == {"edge", "content", "partial", "default", "names", "locks"}

ProcessInit ==
    /\ tree \in ProcessTrees
    /\ cfg \in ConfigsOf(tree)
    /\ cli = NoCli
    /\ Idle
    /\ call \in {[fn |-> "none", path |-> Join(Trees[tree].root, f.rel),
                  shouldAdd |-> FALSE, info |-> NoInfo, calls |-> <<>>] :
                    f \in Trees[tree].files}

\* fg.processFile(path, extInclude, extExclude)
CallProcessFile ==
    /\ call.fn = "none"
    /\ LET r == processFile(T, cfg, call.path)
       IN  call' = [call EXCEPT !.fn = "processFile",
                                !.shouldAdd = r.shouldAdd,
                                !.info = r.info,
                                !.calls = r.calls]
    /\ UNCHANGED <<cli, mu, tree, cfg, fg, mainPc, parentErr, ctxErr, gerr, todo,
                   pPc, pCur, pathsClosed, wPc, wPath, wInfo, resultsClosed,
                   files, ret, sent, cancelledEarly>>

ProcessNext == CallProcessFile

ProcessSpec == ProcessInit /\ [][ProcessNext]_vars

(***************************************************************************)
(* What the scan is expected to return, stated over the tree               *)
(***************************************************************************)
Returned == mainPc = "returned"

ReturnedOk == mainPc = "returned" /\ ret.err = "nil"

\* The paths of the returned records, as a set and in order.
RetPaths == {ret.files[i].Path : i \in 1..Len(ret.files)}

RetPathSeq == [i \in 1..Len(ret.files) |-> ret.files[i].Path]

AbsOf(f) == Join(T.root, f.rel)

\* The root-relative paths of the directories above a root-relative path.
AncestorDirs(rel) == {Take(rel, i - 1) : i \in {j \in 1..Len(rel) : Ch(rel, j) = "/"}}

\* The names of the directories above a path, and all its names.
AncestorNames(rel) == {Base(d) : d \in AncestorDirs(rel)}

Components(rel) == AncestorNames(rel) \cup {Base(rel)}

Ignored(rel) == ShouldIgnore(fg.patterns, T.root, Join(T.root, rel))

\* The walk does not enter the directory.
PrunedDir(d) ==
    \/ Ignored(d)
    \/ Base(d) \in prepareDirFilters(cfg, fg.gitignoreExists)
    \/ shouldSkipHidden(cfg, Base(d))
    \/ d \in T.unreadableDirs

RootPruned ==
    \/ Base(T.root) \in prepareDirFilters(cfg, fg.gitignoreExists)
    \/ shouldSkipHidden(cfg, Base(T.root))
    \/ "." \in T.unreadableDirs
    \/ tree \in MissingRoots

\* The file survives the producer's structural filtering.
Survives(f) ==
    /\ ~RootPruned
    /\ \A d \in AncestorDirs(f.rel) : ~PrunedDir(d)
    /\ ~Ignored(f.rel)
    /\ ~shouldSkipHidden(cfg, Base(f.rel))

\* The file passes the filter policy, stat, size, read and binary checks.
PassesChecks(f) ==
    /\ shouldIncludeFile(cfg, AbsOf(f), prepareExtensionFilters(cfg).extInclude,
                         prepareExtensionFilters(cfg).extExclude)
    /\ ~f.statErr
    /\ f.size <= cfg.MaxFileSize
    /\ ~f.readErr
    /\ ~isBinary(f.content)

Accepted == {f \in T.files : Survives(f) /\ PassesChecks(f)}

ExpectedPaths == {f.rel : f \in Accepted}

RecordOf(rel) ==
    LET f == CHOOSE g \in T.files : g.rel = rel
    IN  [Path |-> rel, Size |-> f.size, Content |-> f.content]

ExpectedList ==
    LET ps == SortedSeq(ExpectedPaths)
    IN  [i \in 1..Len(ps) |-> RecordOf(ps[i])]

(***************************************************************************)
(* C1..C5: the pipeline                                                    *)
(***************************************************************************)
\* C1: whenever GatherFiles returns a nil error, also after a cancellation
\* nobody observed, the list holds exactly one record for each file that
\* survives the producer's structural filtering and passes every per-file
\* check, and nothing else; every surviving candidate was handed to a
\* worker exactly once.
C1_ExactlyOneRecordPerAcceptedFile ==
    ReturnedOk =>
        /\ Len(ret.files) = Cardinality(ExpectedPaths)
        /\ {ret.files[i] : i \in 1..Len(ret.files)} = {RecordOf(p) : p \in ExpectedPaths}
        /\ \A i, j \in 1..Len(sent) : i # j => sent[i] # sent[j]
        /\ {sent[i] : i \in 1..Len(sent)} = {AbsOf(f) : f \in {g \in T.files : Survives(g)}}

\* A scan that returned three or more records although the caller had
\* cancelled: the cancellation came too late to be observed.
C1_Witness ==
    /\ ReturnedOk
    /\ parentErr # "nil"
    /\ Len(ret.files) >= 3
    /\ Len(sent) > Len(ret.files)

\* The producer is blocked in its send on paths and every worker has
\* returned: nobody will receive, the closing goroutine waits for the
\* producer and the collector for close(results).
ProducerStuck == pPc = "send" /\ \A w \in Workers : wPc[w] = "done"

\* What GatherFiles returns when it returns after a cancellation that came
\* before the producer's last check: a nil list and the context's error;
\* and never an error together with a list.
ReturnsOnlyTheError ==
    Returned =>
        /\ cancelledEarly => ret.err # "nil" /\ ret.err = parentErr /\ ret.isNil
        /\ ret.err # "nil" => ret.isNil /\ ret.files = <<>>

\* C2: if the context is cancelled before the producer has run the
\* cancellation check of the last entry of the walk, GatherFiles returns a
\* nil list and the context's error, whatever had been collected; an error
\* is never returned together with a list.
C2_EarlyCancelReturnsOnlyTheError ==
    /\ cancelledEarly => ~ProducerStuck
    /\ ReturnsOnlyTheError

\* C3: for every tree, interleaving and cancellation time GatherFiles
\* eventually returns: no goroutine stays blocked forever on a channel.
\* Every step moves a goroutine forward, so the scan returns unless it
\* gets stuck.
C3_NoGoroutineBlockedForever == ~ProducerStuck

\* C4: a successful GatherFiles returns its records with strictly
\* ascending paths in byte order, so no two records share a path.
C4_StrictlyAscendingPaths ==
    ReturnedOk =>
        \A i, j \in 1..Len(ret.files) :
            i < j => StrLess(ret.files[i].Path, ret.files[j].Path)

\* A successful scan whose records reached the collector in another order
\* than the one returned.
C4_Witness ==
    /\ ReturnedOk
    /\ Len(ret.files) >= 2
    /\ \E i \in 1..(Len(files) - 1) : StrLess(files[i + 1].Path, files[i].Path)

\* C5: without cancellation the returned list is the one list fixed by the
\* tree and the configuration, under every schedule and arrival order.
C5_ResultIndependentOfSchedule ==
    (ReturnedOk /\ parentErr = "nil") => ret.files = ExpectedList

\* A successful scan, never cancelled, in which the record that arrived
\* first is returned last.
C5_Witness ==
    /\ ReturnedOk
    /\ parentErr = "nil"
    /\ Len(ret.files) >= 3
    /\ files[1] = ret.files[Len(ret.files)]

(***************************************************************************)
(* C6..C8: the ignore file and the directory exclusion set                 *)
(***************************************************************************)
\* C6: when the scan root has no .gitignore, every directory whose name is
\* in the comprehensive default set is pruned: no file beneath such a
\* directory is in the result.
C6_DefaultDirsPrunedWithoutGitignore ==
    (ReturnedOk /\ T.gitignore = "absent") =>
        \A p \in RetPaths : AncestorNames(p) \cap Range(DefaultExcludeDirs) = {}

\* The files under a directory with one of the given names.
Beneath(names) == {f \in T.files : AncestorNames(f.rel) \cap names # {}}

\* No ignore pattern matches the path or a directory above it.
Unmatched(rel) == ~Ignored(rel) /\ \A d \in AncestorDirs(rel) : ~Ignored(d)

\* C7: with a .gitignore loaded, the directory names excluded are .git,
\* .svn, .hg and the caller's ExcludeDirs only: a file under build or
\* node_modules that no pattern matches is gathered if nothing else
\* rejects it, and nothing under a caller-supplied directory is.
C7_GitignoreNarrowsDefaultDirs ==
    (ReturnedOk /\ T.gitignore = "ok") =>
        /\ \A f \in Beneath(Range(cfg.ExcludeDirs)) : f.rel \notin RetPaths
        /\ \A f \in Beneath(Range(DefaultExcludeDirs) \ {".git", ".svn", ".hg"}) :
               (/\ Unmatched(f.rel)
                /\ AncestorNames(f.rel) \cap ({".git", ".svn", ".hg"} \cup Range(cfg.ExcludeDirs)) = {}
                /\ \A n \in Components(f.rel) : ~shouldSkipHidden(cfg, n)
                /\ AncestorDirs(f.rel) \cap T.unreadableDirs = {}
                /\ PassesChecks(f))
               => f.rel \in RetPaths

\* A scan with a .gitignore and caller-supplied directories that gathered
\* a file under a directory named build and pruned the caller's a/.
C7_Witness ==
    /\ ReturnedOk
    /\ T.gitignore = "ok"
    /\ cfg.ExcludeDirs # <<>>
    /\ \/ tree = "complex" /\ "src/build/somefile.txt" \in RetPaths
       \/ tree = "edge" /\ "a.go" \in RetPaths /\ "a/b.go" \notin RetPaths

\* The ignore file exists and cannot be read.
GitignoreUnreadable == T.gitignore \in {"openError", "readError"}

GitignoreOfC9 == T.gitignore = "ok" /\ T.lines = <<"*.log", "build/", "temp.txt">>

\* The rest of the producer's and the workers' checks, the ignore rules
\* aside.
PassesRest(f) ==
    /\ \A n \in Components(f.rel) : ~shouldSkipHidden(cfg, n)
    /\ AncestorNames(f.rel) \cap prepareDirFilters(cfg, fg.gitignoreExists) = {}
    /\ AncestorDirs(f.rel) \cap T.unreadableDirs = {}
    /\ PassesChecks(f)

\* C9: with the lines *.log, build/ and temp.txt the scan excludes every
\* file whose name ends in .log, every file beneath a directory named
\* build and every file named temp.txt, and includes every other file
\* that passes the filter policy; for main.go, debug.log,
\* build/output.txt, temp.txt and README.md the result is README.md, main.go.
C9_LogBuildTempExcludedOthersIncluded ==
    (ReturnedOk /\ GitignoreOfC9) =>
        /\ \A f \in T.files :
               (\/ HasSuffix(Base(f.rel), ".log")
                \/ "build" \in AncestorNames(f.rel)
                \/ Base(f.rel) = "temp.txt") => f.rel \notin RetPaths
        /\ \A f \in T.files :
               (/\ ~HasSuffix(Base(f.rel), ".log")
                /\ "build" \notin AncestorNames(f.rel)
                /\ Base(f.rel) # "temp.txt"
                /\ PassesRest(f)) => f.rel \in RetPaths
        /\ (tree = "gitignore" /\ ~cfg.IncludeHidden) =>
               RetPathSeq = <<"README.md", "main.go">>

\* A name the three lines match: a pattern is the same for a file and for
\* a directory.
NamedByC9(n) == HasSuffix(n, ".log") \/ n = "build" \/ n = "temp.txt"

\* C9 as the code has it: a file is excluded when its own name or the
\* name of a directory above it ends in .log, is build or is temp.txt, no
\* such path is handed to a worker, and every other file that passes the
\* remaining checks is included; the result for the five files is
\* README.md, main.go.
C9_NamedComponentsExcludedOthersIncluded ==
    (ReturnedOk /\ GitignoreOfC9) =>
        /\ \A f \in T.files :
               (\E n \in Components(f.rel) : NamedByC9(n)) =>
                   /\ f.rel \notin RetPaths
                   /\ \A i \in 1..Len(sent) : sent[i] # AbsOf(f)
        /\ \A f \in T.files :
               ((\A n \in Components(f.rel) : ~NamedByC9(n)) /\ PassesRest(f))
                   => f.rel \in RetPaths
        /\ (tree = "gitignore" /\ ~cfg.IncludeHidden) =>
               RetPathSeq = <<"README.md", "main.go">>

\* The scan of the five files returned README.md and main.go.
C9_Witness ==
    /\ ReturnedOk
    /\ tree = "gitignore"
    /\ ~cfg.IncludeHidden
    /\ RetPathSeq = <<"README.md", "main.go">>
    /\ Len(sent) = 2

\* C10: /build/ excludes only the directory build directly under the scan
\* root and what is beneath it, docs/ excludes a directory docs at any
\* depth: with both loaded src/build/somefile.txt is in the result and
\* src/docs/guide.md and build/output.txt are not.
C10_AnchoredAndUnanchoredDirPatterns ==
    (ReturnedOk /\ tree = "complex") =>
        /\ "src/build/somefile.txt" \in RetPaths
        /\ "src/docs/guide.md" \notin RetPaths
        /\ "build/output.txt" \notin RetPaths
        /\ \A i \in 1..Len(sent) :
               sent[i] \notin {"/r/src/docs/guide.md", "/r/build/output.txt"}
        /\ Ignored("build") /\ Ignored("build/output.txt") /\ Ignored("build/x/y.go")
        /\ ~Ignored("src/build") /\ ~Ignored("src/build/somefile.txt")
        /\ ~Ignored("app/x/build")
        /\ Ignored("docs") /\ Ignored("src/docs") /\ Ignored("src/docs/guide.md")
        /\ Ignored("app/x/docs/y.md")

\* The scan of the fixture, with no caller-supplied directories, returned
\* the file under src/build.
C10_Witness ==
    /\ ReturnedOk
    /\ tree = "complex"
    /\ cfg.ExcludeDirs = <<>>
    /\ "src/build/somefile.txt" \in RetPaths
    /\ Len(sent) >= 2

\* The name starts with a dot.
Hidden(name) == HasPrefix(name, ".")

\* The absolute path lies beneath a hidden directory of the scan root.
BeneathHidden(path) ==
    /\ Rel(T.root, path).ok
    /\ \E n \in AncestorNames(Rel(T.root, path).path) : Hidden(n)

\* The paths the walk has handed to workers.
SentPaths == {sent[i] : i \in 1..Len(sent)}

\* C11: with IncludeHidden=false no returned record has a path component
\* that starts with a dot, and nothing beneath a hidden directory is ever
\* queued for the walk's callback, held by the producer or handed to a
\* worker.
C11_HiddenNeverReturnedNorVisited ==
    ~cfg.IncludeHidden =>
        /\ \A p \in RetPaths : \A n \in Components(p) : ~Hidden(n)
        /\ \A i \in 1..Len(files) : \A n \in Components(files[i].Path) : ~Hidden(n)
        /\ \A i \in 1..Len(todo) : ~BeneathHidden(todo[i].path)
        /\ pCur # "" => ~BeneathHidden(pCur) /\ ~Hidden(Base(pCur))
        /\ \A q \in SentPaths : ~BeneathHidden(q) /\ ~Hidden(Base(q))

\* A tree with a hidden directory that holds a source file was scanned
\* without hidden entries: the one acceptable visible file came back.
C11_Witness ==
    /\ ReturnedOk
    /\ tree = "content"
    /\ ~cfg.IncludeHidden
    /\ \E f \in T.files : BeneathHidden(AbsOf(f))
    /\ RetPaths = {"eq.go"}
    /\ Len(sent) = 3

\* The keys of the exclude map.
ExcludeSet == Range(cfg.ExcludeExt) \cup Range(DefaultExcludeFiles)

\* C12: with IncludeHidden=true shouldIncludeFile accepts a file whose
\* name starts with a dot exactly when neither its extension nor its name
\* is in the exclude set, whatever the include set holds.
C12_HiddenFileAcceptedUnlessExcluded ==
    (call.fn = "shouldIncludeFile" /\ cfg.IncludeHidden /\ Hidden(Base(call.path))) =>
        (call.result <=>
            (Ext(call.path) \notin ExcludeSet /\ Base(call.path) \notin ExcludeSet))

\* .env was accepted under an include list of Go and Python extensions,
\* which does not hold its extension.
C12_Witness ==
    /\ call.fn = "shouldIncludeFile"
    /\ cfg.IncludeHidden
    /\ call.path = "/r/.env"
    /\ cfg.IncludeExt = <<".go", ".py">>
    /\ Ext(call.path) \notin Range(cfg.IncludeExt)
    /\ call.result

\* The file's extension, or its name if it has none, is in the caller's
\* include list.
Listed(p) ==
    IF Ext(p) = "" THEN Base(p) \in Range(cfg.IncludeExt)
    ELSE Ext(p) \in Range(cfg.IncludeExt)

\* C13 as stated: with a non-empty include list the include set is that
\* list and every returned file has its extension, or its extensionless
\* name, in the list.
C13_OnlyListedFilesReturned ==
    cfg.IncludeExt # <<>> =>
        /\ prepareExtensionFilters(cfg).extInclude = Range(cfg.IncludeExt)
        /\ \A p \in RetPaths : Listed(p)

\* C13 as the code has it: with a non-empty include list the include set
\* is that list, and every returned file has its extension, or its
\* extensionless name, in the list, or is a hidden file returned under
\* IncludeHidden=true.
C13_OnlyListedOrHiddenFilesReturned ==
    cfg.IncludeExt # <<>> =>
        /\ prepareExtensionFilters(cfg).extInclude = Range(cfg.IncludeExt)
        /\ \A p \in RetPaths : Listed(p) \/ (cfg.IncludeHidden /\ Hidden(Base(p)))

\* Under -i .go,.py with hidden files the Go file and .env came back, the
\* markdown file and the Makefile of the default set did not.
C13_Witness ==
    /\ ReturnedOk
    /\ tree = "names"
    /\ cfg.IncludeExt = <<".go", ".py">>
    /\ cfg.IncludeHidden
    /\ RetPaths = {".env", "x_test.go"}
    /\ Len(sent) = 4

\* C14: with _test.go in the exclude list no returned file has a name
\* that ends in _test.go.
C14_TestFilesExcluded ==
    (ReturnedOk /\ "_test.go" \in Range(cfg.ExcludeExt)) =>
        \A p \in RetPaths : ~HasSuffix(Base(p), "_test.go")

\* C15: no returned record, and no record on its way to the result, is
\* of a file named pnpm-lock.yaml, bun.lockb or codebase.md.
C15_DefaultExcludedFilesNeverReturned ==
    /\ \A p \in RetPaths : Base(p) \notin Range(DefaultExcludeFiles)
    /\ \A i \in 1..Len(files) : Base(files[i].Path) \notin Range(DefaultExcludeFiles)
    /\ \A w \in Workers : Base(wInfo[w].Path) \notin Range(DefaultExcludeFiles)

\* The three files were handed to workers under an include list that
\* holds their extensions, and the scan returned without them.
C15_Witness ==
    /\ ReturnedOk
    /\ tree = "locks"
    /\ cfg.IncludeExt = <<".yaml", ".lockb", ".md">>
    /\ {"/r/pnpm-lock.yaml", "/r/bun.lockb", "/r/codebase.md"} \subseteq SentPaths
    /\ RetPaths = {}

\* The content holds a zero byte.
HasZero(data) == \E i \in 1..Len(data) : data[i] = 0

\* C16: no returned record is of a file whose content holds a zero byte,
\* and no returned content holds one.
C16_ZeroByteFilesNeverReturned ==
    /\ \A f \in T.files : HasZero(f.content) => f.rel \notin RetPaths
    /\ \A i \in 1..Len(ret.files) : ~HasZero(ret.files[i].Content)

\* z.go, a Go file of three text bytes and a zero byte, was handed to a
\* worker and is not in the result.
C16_Witness ==
    /\ ReturnedOk
    /\ tree = "content"
    /\ "/r/z.go" \in SentPaths
    /\ "z.go" \notin RetPaths
    /\ "eq.go" \in RetPaths

\* The number of bytes below 32 other than tab, line feed and carriage
\* return.
RECURSIVE CountControl(_)
CountControl(data) ==
    IF data = <<>> THEN 0
    ELSE (IF Head(data) < 32 /\ Head(data) # 9 /\ Head(data) # 10 /\ Head(data) # 13
          THEN 1 ELSE 0) + CountControl(Tail(data))

\* C17: isBinary is true exactly for a content with a zero byte or a
\* non-empty content with 10 * count > 3 * length; at exactly 30% it is
\* false, and for the empty content it is false.
C17_BinaryIffZeroOrOverThirtyPercent ==
    call.fn = "isBinary" =>
        /\ call.result <=>
               \/ HasZero(call.data)
               \/ Len(call.data) > 0 /\ 10 * CountControl(call.data) > 3 * Len(call.data)
        /\ (~HasZero(call.data) /\ 10 * CountControl(call.data) = 3 * Len(call.data))
               => ~call.result
        /\ call.data = <<>> => ~call.result

\* isBinary was called on ten bytes of which three are control bytes and
\* none is zero, and returned false.
C17_Witness ==
    /\ call.fn = "isBinary"
    /\ Len(call.data) = 10
    /\ CountControl(call.data) = 3
    /\ ~HasZero(call.data)
    /\ ~call.result

\* The file reaches the size check of processFile.
ReachesSizeCheck(f) ==
    /\ Survives(f)
    /\ shouldIncludeFile(cfg, AbsOf(f), prepareExtensionFilters(cfg).extInclude,
                         prepareExtensionFilters(cfg).extExclude)
    /\ ~f.statErr

\* C18: of the files that reach the size check, one larger than
\* MaxFileSize is never returned and one of at most MaxFileSize is
\* returned if it can be read and is not binary; every returned record
\* has Size <= MaxFileSize.
C18_SkippedIffLargerThanMaxFileSize ==
    /\ \A i \in 1..Len(ret.files) : ret.files[i].Size <= cfg.MaxFileSize
    /\ ReturnedOk =>
           \A f \in {g \in T.files : ReachesSizeCheck(g)} :
               /\ f.size > cfg.MaxFileSize => f.rel \notin RetPaths
               /\ (f.size <= cfg.MaxFileSize /\ ~f.readErr /\ ~isBinary(f.content))
                      => f.rel \in RetPaths

\* A file of exactly MaxFileSize bytes came back, a file of one byte
\* more, handed to a worker as well, did not.
C18_Witness ==
    /\ ReturnedOk
    /\ tree = "content"
    /\ \E i \in 1..Len(ret.files) :
           ret.files[i].Path = "eq.go" /\ ret.files[i].Size = cfg.MaxFileSize
    /\ "/r/big.go" \in SentPaths
    /\ "big.go" \notin RetPaths
    /\ \E f \in T.files : f.rel = "big.go" /\ f.size = cfg.MaxFileSize + 1

\* The workers inside processFile.
Processing == {w \in Workers : wPc[w] = "proc"}

\* C19: the workers that are inside processFile at the same time are each
\* on a file of their own, no file is under two workers, and up to the
\* whole pool can be inside at once.
C19_WorkersProcessDifferentFilesAtOnce ==
    /\ \A w \in Processing : wPath[w] # "" /\ ~IsDir(T, wPath[w])
    /\ \A v, w \in Processing : v # w => wPath[v] # wPath[w]
    /\ Cardinality(Processing) <= NumCPU

\* Every worker of the pool is inside processFile, each on another file.
C19_Witness ==
    /\ Processing = Workers
    /\ Cardinality({wPath[w] : w \in Workers}) = NumCPU
    /\ ctxErr = "nil"

\* The workers that hold the content of a file: inside processFile, or
\* with a record to send.
Holding == {w \in Workers : wPc[w] \in {"proc", "send"}}

\* The number of file contents the scan holds: one for each such worker
\* and one for each record of the collector's list.
ContentsHeld == Cardinality(Holding) + Len(files)

\* C20 as stated: a worker holds the content of at most one file, and the
\* scan holds at most as many contents as there are workers.
C20_ContentsHeldBoundedByWorkers ==
    /\ \A w \in Workers : wPc[w] = "proc" => wInfo[w] = NoInfo
    /\ ContentsHeld <= NumCPU

\* C20 as the code has it: a worker holds the content of at most one file
\* (its record is gone when it takes the next path), so the workers hold
\* at most as many contents as there are workers; the collector's list
\* holds the content of every record sent so far, one for each accepted
\* file in the end.
C20_WorkersHoldOneCollectorHoldsAll ==
    /\ \A w \in Workers : wInfo[w] # NoInfo => wPc[w] = "send"
    /\ \A w \in Workers : wPc[w] = "proc" => wInfo[w] = NoInfo
    /\ Cardinality(Holding) <= NumCPU
    /\ \A i \in 1..Len(files) : files[i] = RecordOf(files[i].Path)
    /\ ReturnedOk => Len(files) = Cardinality(Accepted)

\* The collector's list holds more contents than there are workers while
\* the scan is running.
C20_Witness ==
    /\ mainPc = "collect"
    /\ ~resultsClosed
    /\ Len(files) > NumCPU
    /\ \A i \in 1..Len(files) : files[i].Content # <<>>

\* The keys of the include map.
IncludeSet ==
    IF cfg.IncludeExt = <<>> THEN Range(DefaultExtensions) ELSE Range(cfg.IncludeExt)

\* C23: shouldIncludeFile rejects a file whose name is in the exclude
\* set; else, with IncludeHidden, accepts a dot-named file unless its
\* extension or name is excluded; else accepts a file with no extension
\* iff its name is in the include set; else accepts iff the extension is
\* in the include set and not in the exclude set.
C23_ShouldIncludeFileOrderedRule ==
    call.fn = "shouldIncludeFile" =>
        LET name == Base(call.path)
            ext == Ext(call.path)
            rule1 == name \in ExcludeSet
            rule2 == ~rule1 /\ cfg.IncludeHidden /\ Hidden(name)
            rule3 == ~rule1 /\ ~rule2 /\ ext = ""
            rule4 == ~rule1 /\ ~rule2 /\ ~rule3
        IN  /\ rule1 => ~call.result
            /\ rule2 => (call.result <=> (ext \notin ExcludeSet /\ name \notin ExcludeSet))
            /\ rule3 => (call.result <=> name \in IncludeSet)
            /\ rule4 => (call.result <=> (ext \in IncludeSet /\ ext \notin ExcludeSet))

\* pnpm-lock.yaml was rejected by its name although the include set holds
\* its extension and the exclude set does not.
C23_Witness ==
    /\ call.fn = "shouldIncludeFile"
    /\ call.path = "/r/pnpm-lock.yaml"
    /\ Ext(call.path) \in IncludeSet
    /\ Ext(call.path) \notin ExcludeSet
    /\ ~call.result

\* C24: once the context is cancelled the producer visits no further
\* entry (its next step is its return), the only candidate still handed
\* off is the one it already holds, and a worker at its select returns
\* without a record and without an append to the result.
C24_CancelStopsProducerAndWorkers ==
    [][ctxErr # "nil" =>
          /\ pPc = "walk" => (todo' = todo /\ pPc' \in {"walk", "done"})
          /\ Len(sent') > Len(sent) =>
                 (pPc = "send" /\ pPc' = "walk" /\ sent' = Append(sent, pCur))
          /\ \A w \in Workers :
                 wPc[w] = "select" =>
                     /\ wPc'[w] \in {"select", "done"}
                     /\ wInfo'[w] = wInfo[w]
                     /\ (wPc'[w] = "done" => files' = files)]_vars

\* The scan was cancelled in mid-walk: the producer and the workers have
\* returned, main.go was handed to a worker, and no record was emitted.
C24_Witness ==
    /\ tree = "gitignore"
    /\ parentErr # "nil"
    /\ pPc = "done"
    /\ todo # <<>>
    /\ \A w \in Workers : wPc[w] = "done"
    /\ "/r/main.go" \in SentPaths
    /\ files = <<>>

\* The root-relative path of an absolute path of the tree.
RelOf(path) == Rel(T.root, path).path

\* Every entry of the tree: its files and its directories.
Entries == {f.rel : f \in T.files} \cup DirsOf(T)

\* C25: the callback skips every entry the ignore rules match, whatever
\* its name; the entry the callback is called on next never lies beneath
\* an ignored directory, and no path that is ignored or lies beneath an
\* ignored directory is held by the producer for its send or, at the
\* return, among those handed to workers.
C25_IgnoredEntriesPrunedFirst ==
    /\ mainPc = "constructed" =>
           \A e \in Entries :
               Ignored(e) => WalkVerdict([path |-> Join(T.root, e), err |-> FALSE]) = "skip"
    /\ (pPc = "walk" /\ todo # <<>>) =>
           \A d \in AncestorDirs(RelOf(Head(todo).path)) : ~Ignored(d)
    /\ pPc = "send" => Unmatched(RelOf(pCur))
    /\ Returned => \A q \in SentPaths : Unmatched(RelOf(q))

\* The fixture with *.log, build/ and temp.txt was scanned with hidden
\* files: the ignored file, the file under the ignored directory and
\* temp.txt were never handed to a worker, the three others were.
C25_Witness ==
    /\ ReturnedOk
    /\ tree = "gitignore"
    /\ Ignored("build") /\ Ignored("debug.log")
    /\ SentPaths = {"/r/.gitignore", "/r/README.md", "/r/main.go"}

\* The entry fails: its stat or its read fails, or it lies in a directory
\* that cannot be read, the scan root included.
Failing(f) ==
    \/ f.statErr
    \/ f.readErr
    \/ \E d \in AncestorDirs(f.rel) : d \in T.unreadableDirs
    \/ "." \in T.unreadableDirs
    \/ tree \in MissingRoots

\* What the scan of the tree without its failing entries returns.
ExpectedWithoutFailing ==
    {f.rel : f \in {g \in T.files : ~Failing(g) /\ Survives(g) /\ PassesChecks(g)}}

\* C26: a scan whose caller never cancelled returns a nil error whatever
\* entries fail, and a scan that returns a nil error returns the records
\* of the tree without its failing entries.
C26_FailingEntriesOnlySkipped ==
    /\ (Returned /\ parentErr = "nil") => ret.err = "nil"
    /\ ReturnedOk =>
           /\ RetPaths = ExpectedWithoutFailing
           /\ \A f \in T.files : Failing(f) => f.rel \notin RetPaths

\* The tree with a directory that cannot be read and a file whose stat
\* fails was scanned: both source files beside them came back.
C26_Witness ==
    /\ ReturnedOk
    /\ tree = "edge"
    /\ \E f \in T.files : f.statErr /\ Survives(f)
    /\ \E f \in T.files : AncestorDirs(f.rel) \cap T.unreadableDirs # {}
    /\ {"a.go", "a/b.go"} \subseteq RetPaths

\* C27: GatherFiles returns no error but that of the caller's cancelled
\* context; with a caller that never cancels no goroutine blocks and the
\* error is nil, and for a scan root that does not exist or cannot be
\* read the list is empty.
C27_OnlyCancellationIsReturnedAsError ==
    /\ Returned => (ret.err # "nil" => (parentErr # "nil" /\ ret.err = parentErr))
    /\ parentErr = "nil" => ~ProducerStuck
    /\ (ReturnedOk /\ tree \in {"gone", "noaccess"}) => (ret.files = <<>> /\ ret.isNil)

\* The scan of a root that does not exist returned the empty list and a
\* nil error, with no cancellation.
C27_Witness ==
    /\ Returned
    /\ tree = "gone"
    /\ parentErr = "nil"
    /\ ret = [files |-> <<>>, isNil |-> TRUE, err |-> "nil"]

\* The workers that received a candidate and have not finished with it, and
\* the candidate each of them has.
InFlight == {w \in Workers : wPc[w] \in {"select", "proc", "send"}}

CandidateOf(w) == IF wPath[w] # "" THEN wPath[w] ELSE Join(T.root, wInfo[w].Path)

\* C28: the producer holds a candidate exactly while it is in its send and
\* that candidate has not been received; it does not take the next walk
\* entry before a worker that was receiving has taken the candidate; the
\* candidates received and not finished are with a worker each, so they
\* are at most as many as the workers.
C28_PathsHandoffUnbuffered ==
    /\ [](/\ (pPc = "send") <=> (pCur # "")
          /\ pPc = "send" => pCur \notin SentPaths
          /\ \A w \in InFlight : CandidateOf(w) \in SentPaths
          /\ \A v, w \in InFlight : v # w => CandidateOf(v) # CandidateOf(w)
          /\ Cardinality(InFlight) <= NumCPU)
    /\ [][pPc = "send" =>
            /\ todo' = todo
            /\ \/ pPc' = "send" /\ pCur' = pCur /\ sent' = sent
               \/ /\ pPc' = "walk"
                  /\ sent' = Append(sent, pCur)
                  /\ \E w \in Workers :
                         wPc[w] = "recv" /\ wPc'[w] = "select" /\ wPath'[w] = pCur]_vars

\* Every worker has a candidate it has not finished and the producer waits
\* in its send with the next one, the walk not yet over.
C28_Witness ==
    /\ Cardinality(InFlight) = NumCPU
    /\ pPc = "send"
    /\ todo # <<>>
    /\ ctxErr = "nil"

\* C29: paths is closed exactly when the producer has returned, results is
\* closed only when the producer and every worker have returned, a closed
\* channel stays closed and is not closed again, and no goroutine is in a
\* send on a closed channel.
C29_ChannelsClosedOnceAfterSenders ==
    /\ [](/\ pathsClosed <=> (pPc = "done")
          /\ resultsClosed => (pPc = "done" /\ \A w \in Workers : wPc[w] = "done")
          /\ pPc = "send" => ~pathsClosed
          /\ \A w \in Workers : wPc[w] = "send" => ~resultsClosed)
    /\ [][/\ pathsClosed => (pathsClosed' /\ pPc' = "done")
          /\ resultsClosed => resultsClosed'
          /\ (pathsClosed' /\ ~pathsClosed) => (pPc = "walk" /\ pPc' = "done")
          /\ (resultsClosed' /\ ~resultsClosed) => mainPc = "collect"]_vars

\* The scan was cancelled, the producer closed paths on its way out while
\* entries were still to be walked, and results was closed after all had
\* returned.
C29_Witness ==
    /\ resultsClosed
    /\ pathsClosed
    /\ parentErr # "nil"
    /\ todo # <<>>
    /\ gerr # "nil"

\* The value of a setting by the documented precedence: the flag when it is
\* given, else the environment variable, else the .env file, else the
\* default.
ByPrecedence(k) ==
    IF k \in cli.flags THEN FlagValue[k]
    ELSE IF k \in cli.environ THEN EnvironValue[k]
    ELSE IF k \in cli.dotenv THEN DotenvValue[k]
    ELSE FlagDefault[k]

\* C21: in a run of Execute, once the command line is parsed and when
\* runCode2MD has run, every setting of cfg has the value the precedence
\* defaults < .env < environment < flags gives it.
C21_ConfigurationPrecedence ==
    (cli.entry = "Execute" /\ cli.pc \in {"parsed", "done"}) =>
        \A k \in Settings : cli.cfg[k] = ByPrecedence(k)

\* C22: a run of runCode2MD with DryRun set whose gathering succeeded has
\* printed the header and the gathered paths in sorted order, has not
\* called the generator, and has left every output file as it was.
C22_DryRunLeavesOutputFileAlone ==
    (cli.pc = "done" /\ cli.cfg.DryRun) =>
        /\ ~cli.generatorCalled
        /\ cli.fs = cli.fs0
        /\ cli.err = "nil" =>
               /\ Len(cli.stdout) >= 1
               /\ \A i \in 2..(Len(cli.stdout) - 1) :
                      StrLess(cli.stdout[i], cli.stdout[i + 1])
               /\ {cli.stdout[i] : i \in 2..Len(cli.stdout)}
                      \in {{r.files[i].Path : i \in 1..Len(r.files)} : r \in GatherResults}

\* A dry run of the test's configuration printed the three paths and the
\* output file still does not exist.
C22_Witness ==
    /\ cli.pc = "done"
    /\ cli.cfg.DryRun
    /\ cli.cfg.OutputFile = "test_output.md"
    /\ cli.stdout = <<"Dry Run: The following files would be included in the output:",
                      "README.md", "internal/helper.go", "main.go">>
    /\ cli.fs["test_output.md"] = "absent"

\* The files the mutex-collecting variant accepts: none of the directories
\* above is hidden, excluded or unreadable, the name is not hidden, and
\* processFile accepts the file.
MutexExpectedPaths ==
    {f.rel : f \in {g \in T.files :
        /\ \A d \in AncestorDirs(g.rel) :
               /\ ~(~cfg.IncludeHidden /\ HasPrefix(Base(d), "."))
               /\ Base(d) \notin Range(DefaultExcludeDirs) \cup Range(cfg.ExcludeDirs)
               /\ d \notin T.unreadableDirs
        /\ ~(~cfg.IncludeHidden /\ HasPrefix(Base(g.rel), "."))
        /\ Mutex_processFile(T, cfg, AbsOf(g)).ok}}

\* The workers between mu.Lock() and mu.Unlock().
InCriticalSection == {w \in Workers : wPc[w] \in {"append", "store", "unlock"}}

\* C30: at most one worker is between Lock and Unlock, and it is the
\* holder of mu; no path is twice in the shared list; the list returned
\* with a nil error has exactly one record for each accepted file.
C30_MutexAppendsLoseNothing ==
    /\ Cardinality(InCriticalSection) <= 1
    /\ \A w \in InCriticalSection : mu.holder = w
    /\ \A i, j \in 1..Len(files) : i # j => files[i].Path # files[j].Path
    /\ ReturnedOk =>
           /\ RetPaths = MutexExpectedPaths
           /\ Len(ret.files) = Cardinality(MutexExpectedPaths)

\* A scan in which a worker took mu while the other was waiting for it
\* returned all three accepted files.
C30_Witness ==
    /\ ReturnedOk
    /\ mu.waited
    /\ Len(ret.files) = 3
    /\ RetPaths = MutexExpectedPaths

(***************************************************************************)
(* C31..C34, C38: the ignore file                                          *)
(***************************************************************************)
\* The glob a line stands for: one trailing "/" removed, then "{,**/}" in
\* front when no "/" is left, else a leading "/" removed.
GlobOfLine(line) ==
    LET l == IF HasSuffix(line, "/") THEN Take(line, Len(line) - 1) ELSE line
    IN  IF \A i \in 1..Len(l) : Ch(l, i) # "/" THEN "{,**/}" \o l
        ELSE IF Ch(l, 1) = "/" THEN Drop(l, 1)
        ELSE l

\* The lines of a file, each without its trailing "/".
WithoutTrailingSlash(lines) ==
    [i \in 1..Len(lines) |-> TrimSuffix(TrimSpace(lines[i]), "/")]

Skipped(line) ==
    LET l == TrimSpace(line)
    IN  l = "" \/ Ch(l, 1) = "#" \/ Ch(l, 1) = "!"

\* The lines of a file that satisfy keep, in their order.
RECURSIVE LinesWhere(_, _)
LinesWhere(lines, keep) ==
    IF lines = <<>> THEN <<>>
    ELSE (IF Head(lines) \in keep THEN <<Head(lines)>> ELSE <<>>)
         \o LinesWhere(Tail(lines), keep)

\* The file with its blank, comment and negation lines deleted.
WithoutSkipped(lines) == LinesWhere(lines, {l \in GitignoreLines : ~Skipped(l)})

\* Is the path ignored under the file made of these lines.
IgnoredUnder(lines, path) ==
    ShouldIgnore(LoadGitignore("ok", lines).patterns, BasePath, path)

\* C32: the patterns loaded from a file are those loaded from the file
\* with its blank, comment and negation lines deleted, at most two for
\* each line that is left; a path ignored by one line is ignored whatever
\* negation lines the file has.
C32_BlankCommentNegationLinesAddNothing ==
    /\ call.fn \in {"LoadGitignore", "ShouldIgnore"} =>
           /\ call.patterns = LoadGitignore("ok", WithoutSkipped(call.lines)).patterns
           /\ Len(call.patterns) <= 2 * Len(WithoutSkipped(call.lines))
           /\ \A i \in 1..Len(call.patterns) :
                  ~Contains(call.patterns[i], "!") /\ ~Contains(call.patterns[i], "#")
    /\ call.fn = "ShouldIgnore" =>
           /\ call.result = IgnoredUnder(WithoutSkipped(call.lines), call.path)
           /\ (\E i \in 1..Len(call.lines) : IgnoredUnder(<<call.lines[i]>>, call.path))
                  => call.result

\* keep.log is ignored by *.log although the next line negates it.
C32_Witness ==
    /\ call.fn = "ShouldIgnore"
    /\ call.lines = <<"*.log", "!keep.log">>
    /\ call.path = "/r/keep.log"
    /\ Len(call.patterns) = 2
    /\ call.result

\* Some pattern of the parser matches the root-relative path.
SomePatternMatches ==
    \E i \in 1..Len(call.patterns) :
        GlobMatch(call.patterns[i], Rel(BasePath, call.path).path)

\* The lines in the opposite order, and with one more line at position k.
Reversed(lines) == [i \in 1..Len(lines) |-> lines[Len(lines) + 1 - i]]

InsertLine(lines, k, l) == SubSeq(lines, 1, k) \o <<l>> \o SubSeq(lines, k + 1, Len(lines))

\* The ignored set does not depend on the order of the lines and does not
\* shrink when a line is added.
OrderFreeAndMonotone ==
    /\ call.result = IgnoredUnder(Reversed(call.lines), call.path)
    /\ call.result =>
           \A l \in GitignoreLines : \A k \in 0..Len(call.lines) :
               IgnoredUnder(InsertLine(call.lines, k, l), call.path)

\* C33 as stated: every path, the scan root included, is ignored exactly
\* when some compiled pattern matches its root-relative path.
C33_IgnoredIffSomePatternMatches ==
    call.fn = "ShouldIgnore" =>
        /\ call.result <=> SomePatternMatches
        /\ OrderFreeAndMonotone

\* C33 as the code has it: a path other than the scan root is ignored
\* exactly when some compiled pattern matches its root-relative path, the
\* root never; the ignored set is independent of the order of the lines
\* and adding a line never un-ignores a path.
C33_IgnoredIffSomePatternMatchesBelowRoot ==
    call.fn = "ShouldIgnore" =>
        /\ call.result <=> (call.path # BasePath /\ SomePatternMatches)
        /\ OrderFreeAndMonotone

\* The second of two lines is the one that ignores the path.
C33_Witness ==
    /\ call.fn = "ShouldIgnore"
    /\ call.lines = <<"*.log", "build/">>
    /\ call.path = "/r/build/x.go"
    /\ call.result
    /\ ~IgnoredUnder(<<"*.log">>, call.path)

\* C34: ShouldIgnore returns false for the scan root whatever the file
\* holds.
C34_RootIsNeverIgnored ==
    (call.fn = "ShouldIgnore" /\ call.path = BasePath) => ~call.result

\* The file holds the line * whose glob matches the root's relative path
\* ".", and the root is not ignored while an entry beneath it is.
C34_Witness ==
    /\ call.fn = "ShouldIgnore"
    /\ call.path = BasePath
    /\ call.lines = <<"*">>
    /\ SomePatternMatches
    /\ ~call.result
    /\ IgnoredUnder(call.lines, "/r/main.go")

\* The lines whose globs glob.Compile accepts, and the lines skipped.
WellFormed(line) ==
    Skipped(line) \/ \A j \in 1..2 : GlobCompiles(translateGitignoreToGlobs(TrimSpace(line))[j])

\* C38: a load of a file that opens and reads returns nil whatever its
\* lines, and the patterns are those of the file without the lines whose
\* globs do not compile: both globs of every other pattern line are there.
C38_MalformedPatternOnlySkipped ==
    call.fn \in {"LoadGitignore", "ShouldIgnore"} =>
        /\ call.err = "nil"
        /\ call.patterns =
               LoadGitignore("ok", LinesWhere(call.lines,
                                              {l \in GitignoreLines : WellFormed(l)})).patterns
        /\ \A i \in 1..Len(call.lines) :
               (WellFormed(call.lines[i]) /\ ~Skipped(call.lines[i])) =>
                   \A j \in 1..2 :
                       translateGitignoreToGlobs(TrimSpace(call.lines[i]))[j]
                           \in Range(call.patterns)

\* The file starts with a pattern whose "[" is not closed; the load
\* returned nil and the line after it ignores keep.log.
C38_Witness ==
    /\ call.fn = "ShouldIgnore"
    /\ call.lines = <<"[ab", "*.log">>
    /\ call.err = "nil"
    /\ call.patterns = <<"{,**/}*.log", "{,**/}*.log/**">>
    /\ call.path = "/r/keep.log"
    /\ call.result

(***************************************************************************)
(* C35, C36: the directory checks                                          *)
(***************************************************************************)
\* The root's own name is hidden while hidden entries are left out, or is
\* in the set of directory names the scan excludes.
RootNamePruned ==
    \/ ~cfg.IncludeHidden /\ Ch(Base(T.root), 1) = "."
    \/ Base(T.root) \in prepareDirFilters(cfg, fg.gitignoreExists)

\* C35: when the root's own name is hidden or excluded, WalkDir's queue
\* never holds more than the root, no path is sent, and a scan whose
\* caller did not cancel returns the empty list and a nil error.
C35_RootPrunedByItsOwnName ==
    (mainPc # "new" /\ RootNamePruned) =>
        /\ Len(todo) <= 1
        /\ pPc # "send"
        /\ sent = <<>>
        /\ (Returned /\ parentErr = "nil") =>
               ret = [files |-> <<>>, isNil |-> TRUE, err |-> "nil"]

\* The scan of the root /.h, which holds main.go, returned nothing.
C35_Witness ==
    /\ Returned
    /\ tree = "hiddenroot"
    /\ ~cfg.IncludeHidden
    /\ parentErr = "nil"
    /\ todo = <<>>
    /\ ret = [files |-> <<>>, isNil |-> TRUE, err |-> "nil"]

\* The names of version-control directories.
VcsDirs == {".git", ".svn", ".hg"}

\* C36: nothing beneath a directory named .git, .svn or .hg is queued for
\* the callback or sent to a worker, and no returned record lies beneath
\* one, whatever the configuration and the ignore file.
C36_VcsDirectoriesAlwaysPruned ==
    /\ (pPc = "walk" /\ todo # <<>>) =>
           AncestorNames(RelOf(Head(todo).path)) \cap VcsDirs = {}
    /\ pPc = "send" => AncestorNames(RelOf(pCur)) \cap VcsDirs = {}
    /\ Returned =>
           /\ \A q \in SentPaths : AncestorNames(RelOf(q)) \cap VcsDirs = {}
           /\ \A p \in RetPaths : AncestorNames(p) \cap VcsDirs = {}

\* With hidden entries included the tree of three version-control
\* directories gave main.go alone.
C36_Witness ==
    /\ ReturnedOk
    /\ tree = "vcs"
    /\ cfg.IncludeHidden
    /\ RetPaths = {"main.go"}
    /\ SentPaths = {"/r/main.go"}

(***************************************************************************)
(* C37: the order of the checks of processFile                             *)
(***************************************************************************)
\* C37: processFile reads the content only after a successful stat that
\* followed an accepting filter policy and found at most MaxFileSize
\* bytes: a file the policy rejects is neither statted nor read, a file
\* whose stat fails or that is too large is statted and not read, and a
\* file is added only after both calls.
C37_ContentReadOnlyAfterPolicyStatSize ==
    call.fn = "processFile" =>
        LET f == FileAt(T, call.path)
            flt == prepareExtensionFilters(cfg)
            policyOk == shouldIncludeFile(cfg, call.path, flt.extInclude, flt.extExclude)
        IN  /\ ~policyOk => call.calls = <<>>
            /\ (policyOk /\ (f.statErr \/ f.size > cfg.MaxFileSize)) =>
                   call.calls = <<"Stat">>
            /\ (policyOk /\ ~f.statErr /\ f.size <= cfg.MaxFileSize) =>
                   call.calls = <<"Stat", "ReadFile">>
            /\ call.shouldAdd => call.calls = <<"Stat", "ReadFile">>

\* A source file of one byte more than MaxFileSize was statted, not read
\* and not added.
C37_Witness ==
    /\ call.fn = "processFile"
    /\ tree = "content"
    /\ call.path = "/r/big.go"
    /\ call.calls = <<"Stat">>
    /\ ~call.shouldAdd

====
